---- MODULE Spec2Model ----
(***************************************************************************)
(* Model of the retrieval / aggregation / citation pipeline of the        *)
(* outline-generator backend (backend/src):                               *)
(*   utils.chunk_text, chatbot.process_chat_query_stream,                 *)
(*   chatbot.process_chat_query and outline.generate_outline.             *)
(* Strings are sequences of one-character strings, so that splitting,     *)
(* trimming and joining are computed and not assumed.                     *)
(***************************************************************************)
EXTENDS Integers, Sequences, FiniteSets, TLC

(***************************************************************************)
(* Bounds of the model.                                                    *)
(***************************************************************************)
\* longest input text handed to chunk_text
MaxLen == 6
\* largest chunk_size argument
MaxChunkSize == 4
\* largest overlap argument
MaxOverlap == 3
\* most iterations of the fixed-width loop that are followed: more than a
\* loop that moves forward needs for a text of MaxLen characters
MaxIter == 7
\* longest freely chosen candidate list the vector store returns
MaxCand == 2
\* longest candidate list of one single document the vector store returns
MaxBulk == 9
\* most increments the generation stream yields
MaxPulls == 2

(***************************************************************************)
(* Characters and strings.                                                 *)
(***************************************************************************)
Chars == {"a", ".", " "}

IsSpace(c) == c \in {" ", "\n"}

\* the character class [.!?] of sentence_pattern
IsTerminal(c) == c \in {".", "!", "?"}

Min(a, b) == IF a < b THEN a ELSE b

Max(a, b) == IF a > b THEN a ELSE b

\* all strings over Chars of length at most n
StringsUpTo(n) == UNION {[1..k -> Chars] : k \in 0..n}

RECURSIVE LStrip(_)
LStrip(s) == IF s # <<>> /\ IsSpace(Head(s)) THEN LStrip(Tail(s)) ELSE s

RECURSIVE RStrip(_)
RStrip(s) ==
  IF s # <<>> /\ IsSpace(s[Len(s)]) THEN RStrip(SubSeq(s, 1, Len(s) - 1)) ELSE s

\* str.strip()
Strip(s) == RStrip(LStrip(s))

\* text[start:end] with Python's treatment of negative and oversized indices
PySlice(s, start, end) ==
  LET n == Len(s)
      lo == IF start < 0 THEN Max(n + start, 0) ELSE Min(start, n)
      hi == IF end < 0 THEN Max(n + end, 0) ELSE Min(end, n)
  IN  IF lo < hi THEN SubSeq(s, lo + 1, hi) ELSE <<>>

RECURSIVE SkipSpaces(_, _)
\* first index at or after i that holds no whitespace (Len + 1 when none)
SkipSpaces(s, i) ==
  IF i <= Len(s) /\ IsSpace(s[i]) THEN SkipSpaces(s, i + 1) ELSE i

RECURSIVE SplitFrom(_, _, _)
\* re.split(r'(?<=[.!?])\s+', text): the pieces from index i on, cur being
\* the piece in progress
SplitFrom(s, i, cur) ==
  IF i > Len(s) THEN <<cur>>
  ELSE IF IsSpace(s[i]) /\ i > 1 /\ IsTerminal(s[i - 1])
       THEN <<cur>> \o SplitFrom(s, SkipSpaces(s, i), <<>>)
       ELSE SplitFrom(s, i + 1, Append(cur, s[i]))

RECURSIVE StripNonEmpty(_)
\* [s.strip() for s in sentences if s.strip()]
StripNonEmpty(pieces) ==
  IF pieces = <<>> THEN <<>>
  ELSE LET h == Strip(Head(pieces))
       IN  IF h = <<>> THEN StripNonEmpty(Tail(pieces))
           ELSE <<h>> \o StripNonEmpty(Tail(pieces))

\* the sentence list chunk_text works on
SplitSentences(s) == StripNonEmpty(SplitFrom(s, 1, <<>>))

RECURSIVE Join(_)
\* ' '.join(parts)
Join(parts) ==
  IF parts = <<>> THEN <<>>
  ELSE IF Len(parts) = 1 THEN parts[1]
  ELSE parts[1] \o <<" ">> \o Join(Tail(parts))

RECURSIVE Flatten(_)
Flatten(ss) == IF ss = <<>> THEN <<>> ELSE Head(ss) \o Flatten(Tail(ss))

\* the characters of the model in code point order, the order of str < str
Alphabet ==
  <<" ", ",", "-", ".", "/", "1", ";", "A", "B", "D", "U", "[", "]", "_",
    "a", "b", "c", "e", "f", "k", "m", "n", "o", "p", "q", "t", "u", "w", "x">>

Ord(c) == CHOOSE i \in 1..Len(Alphabet) : Alphabet[i] = c

RECURSIVE StrLess(_, _)
\* a < b on str
StrLess(a, b) ==
  IF b = <<>> THEN FALSE
  ELSE IF a = <<>> THEN TRUE
  ELSE IF Head(a) = Head(b) THEN StrLess(Tail(a), Tail(b))
  ELSE Ord(Head(a)) < Ord(Head(b))

RECURSIVE SortedKeys(_)
\* sorted(keys)
SortedKeys(keys) ==
  IF keys = {} THEN <<>>
  ELSE LET least == CHOOSE k \in keys : \A j \in keys \ {k} : StrLess(k, j)
       IN  <<least>> \o SortedKeys(keys \ {least})

\* Python's None
NoneVal == <<"None">>

\* the value of a local that was not assigned yet
NotSet == [unset |-> TRUE]

\* d.get(key, default)
Get(d, key, default) == IF key \in DOMAIN d THEN d[key] ELSE default

\* seq[:n]
Take(seq, n) == SubSeq(seq, 1, Min(n, Len(seq)))

(***************************************************************************)
(* State.                                                                  *)
(***************************************************************************)
VARIABLES
  \* chunk_text: arguments
  text, chunk_size, overlap,
  \* chunk_text: locals
  sentences, chunks, current_chunk, current_length, start,
  \* chunk_text: the value overlap_sentences had when each chunk was started
  \* (empty for the first chunk), and the index of the for loop
  overlap_sentences, idx,
  \* chunk_text: position in the function
  ct_pc,
  \* the operation that is called ("stream": process_chat_query_stream,
  \* "chat": process_chat_query, "outline": generate_outline) and its
  \* arguments; configured stands for gemini_client and gemini_model both
  \* being set, message also for the question of generate_outline
  op, configured, folder_name, message,
  \* position in the called function
  pc,
  \* locals of the called function
  query_results, documents_data, prompt, full_response,
  \* the lines process_chat_query_stream has yielded
  out,
  \* the dictionary process_chat_query or generate_outline returned
  result,
  \* the generation oracle: what it handed over so far and whether its call
  \* is idle, open, exhausted or failed
  generated, gen_state,
  \* calls of collection.query and of the generation oracle made by the
  \* function since it was entered
  query_calls, generate_calls,
  \* generate_outline_endpoint: request.questions (None when generate_outline
  \* is called on its own) and the local outlines
  questions, outlines,
  \* the Database method that is called ("ocr_pdf", "update_document_authors")
  \* with its folder_name argument, whether the Database has its Gemini
  \* client and model, and the position in the method
  db_op, db_folder, db_configured, db_pc,
  \* the collection: the stored chunks in insertion order, each with its id,
  \* document and metadata; and the collection as it was when the method was
  \* called
  store, before,
  \* ocr_pdf: the OCR text of each page of the PDF, and the locals
  pages, batch_start, all_chunks, all_text_parts,
  \* update_document_authors: the locals, doc_pos being the position of the
  \* loop in documents_chunks
  documents_chunks, doc_pos, updated_count, errors,
  \* what the method returned
  db_result,
  \* calls of collection.add and collection.delete
  add_calls, delete_calls,
  \* store_text: the text and filename arguments and the local doc_metadata
  \* (its chunks are kept in all_chunks)
  db_text, db_filename, doc_metadata,
  \* calls of the generation oracle by extract_title_and_author
  oracle_calls,
  \* citation reconciliation on its own: the generated text, the list of
  \* known identities, and the list each application has produced
  generated_text, known_identities, cited_runs

ct_vars ==
  <<text, chunk_size, overlap, sentences, chunks, current_chunk,
    current_length, start, overlap_sentences, idx, ct_pc>>

chat_vars ==
  <<op, configured, folder_name, message, pc, query_results, documents_data,
    prompt, full_response, out, result, generated, gen_state, query_calls,
    generate_calls, questions, outlines>>

db_vars ==
  <<db_op, db_folder, db_configured, db_pc, store, before, pages, batch_start,
    all_chunks, all_text_parts, documents_chunks, doc_pos, updated_count,
    errors, db_result, add_calls, delete_calls, db_text, db_filename,
    doc_metadata, oracle_calls>>

cite_vars == <<generated_text, known_identities, cited_runs>>

vars == <<ct_vars, chat_vars, db_vars, cite_vars>>

\* no citation reconciliation on its own is in progress
CiteIdle ==
  /\ generated_text = <<>>
  /\ known_identities = <<>>
  /\ cited_runs = <<>>

\* no Database method is in progress and the collection is empty
DbIdle ==
  /\ db_op = "none"
  /\ db_folder = <<>>
  /\ db_configured = FALSE
  /\ db_pc = "idle"
  /\ store = <<>>
  /\ before = <<>>
  /\ pages = <<>>
  /\ batch_start = 0
  /\ all_chunks = <<>>
  /\ all_text_parts = <<>>
  /\ documents_chunks = <<>>
  /\ doc_pos = 0
  /\ updated_count = 0
  /\ errors = <<>>
  /\ db_result = NotSet
  /\ add_calls = 0
  /\ delete_calls = 0
  /\ db_text = <<>>
  /\ db_filename = <<>>
  /\ doc_metadata = NotSet
  /\ oracle_calls = 0

\* no chat or outline call is in progress
ChatIdle ==
  /\ op = "none"
  /\ configured = FALSE
  /\ folder_name = <<>>
  /\ message = <<>>
  /\ pc = "idle"
  /\ query_results = NotSet
  /\ documents_data = <<>>
  /\ prompt = NotSet
  /\ full_response = <<>>
  /\ out = <<>>
  /\ result = NotSet
  /\ generated = <<>>
  /\ gen_state = "idle"
  /\ query_calls = 0
  /\ generate_calls = 0
  /\ questions = NoneVal
  /\ outlines = <<>>

\* no chunk_text call is in progress
ChunkIdle ==
  /\ text = <<>>
  /\ chunk_size = 0
  /\ overlap = 0
  /\ sentences = <<>>
  /\ chunks = <<>>
  /\ current_chunk = <<>>
  /\ current_length = 0
  /\ start = 0
  /\ overlap_sentences = <<>>
  /\ idx = 0
  /\ ct_pc = "idle"

(***************************************************************************)
(* utils.chunk_text                                                        *)
(***************************************************************************)
\* the test that closes the current chunk before a sentence is added
Overflows(cur_length, sentence_length, size, cur_chunk) ==
  cur_length + sentence_length > size /\ cur_chunk # <<>>

\* the test that lets one more trailing sentence into the overlap
OverlapFits(overlap_length, s, ov) == overlap_length + Len(s) <= ov

RECURSIVE OverlapWalk(_, _, _, _)
\* the loop over reversed(current_chunk): i is the sentence looked at, acc the
\* record of overlap_sentences and overlap_length so far
OverlapWalk(cur_chunk, i, ov, acc) ==
  IF i = 0 THEN acc
  ELSE IF OverlapFits(acc.length, cur_chunk[i], ov)
       THEN OverlapWalk(cur_chunk, i - 1, ov,
                        [sents |-> <<cur_chunk[i]>> \o acc.sents,
                         length |-> acc.length + Len(cur_chunk[i]) + 1])
       ELSE acc

\* overlap_sentences and overlap_length for a chunk that was just closed
SelectOverlap(cur_chunk, ov) ==
  OverlapWalk(cur_chunk, Len(cur_chunk), ov, [sents |-> <<>>, length |-> 0])

\* SeedChunk with the overflowing sentence left out
SeedChunkWithoutSentence(ov_sentences, sentence) == ov_sentences

\* the chunk started after an overflow
SeedChunk(ov_sentences, sentence) == ov_sentences \o <<sentence>>

\* current_length after an overflow
SeedLength(overlap_length, sentence_length) == overlap_length + sentence_length

\* the argument values the model calls chunk_text with
ChunkTextInit ==
  /\ text \in StringsUpTo(MaxLen)
  /\ chunk_size \in 1..MaxChunkSize
  /\ overlap \in 0..MaxOverlap
  /\ sentences = <<>>
  /\ chunks = <<>>
  /\ current_chunk = <<>>
  /\ current_length = 0
  /\ start = 0
  /\ overlap_sentences = <<>>
  /\ idx = 0
  /\ ct_pc = "call"
  /\ ChatIdle
  /\ DbIdle
  /\ CiteIdle

\* `if not text: return []`
ChunkEmptyText ==
  /\ ct_pc = "call"
  /\ UNCHANGED <<chat_vars, db_vars, cite_vars>>
  /\ text = <<>>
  /\ ct_pc' = "done"
  /\ UNCHANGED <<text, chunk_size, overlap, sentences, chunks, current_chunk,
                 current_length, start, overlap_sentences, idx>>

\* split into sentences; a text with sentences enters the for loop
ChunkSplit ==
  /\ ct_pc = "call"
  /\ UNCHANGED <<chat_vars, db_vars, cite_vars>>
  /\ text # <<>>
  /\ SplitSentences(text) # <<>>
  /\ sentences' = SplitSentences(text)
  /\ idx' = 1
  /\ overlap_sentences' = << <<>> >>
  /\ ct_pc' = "for"
  /\ UNCHANGED <<text, chunk_size, overlap, chunks, current_chunk,
                 current_length, start>>

\* split into sentences; `if not sentences:` enters the fixed-width loop
ChunkNoSentences ==
  /\ ct_pc = "call"
  /\ UNCHANGED <<chat_vars, db_vars, cite_vars>>
  /\ text # <<>>
  /\ SplitSentences(text) = <<>>
  /\ sentences' = <<>>
  /\ start' = 0
  /\ ct_pc' = "while"
  /\ UNCHANGED <<text, chunk_size, overlap, chunks, current_chunk,
                 current_length, overlap_sentences, idx>>

\* one iteration of `for sentence in sentences:`
ChunkSentence ==
  /\ ct_pc = "for"
  /\ UNCHANGED <<chat_vars, db_vars, cite_vars>>
  /\ idx <= Len(sentences)
  /\ LET sentence == sentences[idx]
         sentence_length == Len(sentence)
         sel == SelectOverlap(current_chunk, overlap)
     IN  IF Overflows(current_length, sentence_length, chunk_size, current_chunk)
         THEN /\ chunks' = Append(chunks, Join(current_chunk))
              /\ current_chunk' = SeedChunk(sel.sents, sentence)
              /\ current_length' = SeedLength(sel.length, sentence_length)
              /\ overlap_sentences' = Append(overlap_sentences, sel.sents)
         ELSE /\ current_chunk' = Append(current_chunk, sentence)
              /\ current_length' = current_length + sentence_length + 1
              /\ UNCHANGED <<chunks, overlap_sentences>>
  /\ idx' = idx + 1
  /\ UNCHANGED <<text, chunk_size, overlap, sentences, start, ct_pc>>

\* after the for loop: `if current_chunk: chunks.append(...)`, return
ChunkLast ==
  /\ ct_pc = "for"
  /\ UNCHANGED <<chat_vars, db_vars, cite_vars>>
  /\ idx > Len(sentences)
  /\ chunks' = IF current_chunk # <<>> THEN Append(chunks, Join(current_chunk))
               ELSE chunks
  /\ ct_pc' = "done"
  /\ UNCHANGED <<text, chunk_size, overlap, sentences, current_chunk,
                 current_length, start, overlap_sentences, idx>>

\* one test of `while start < len(text):` and the iteration it allows; the
\* model follows at most MaxIter iterations
ChunkWindow ==
  /\ ct_pc = "while"
  /\ UNCHANGED <<chat_vars, db_vars, cite_vars>>
  /\ Len(chunks) < MaxIter
  /\ IF start < Len(text)
     THEN LET end == start + chunk_size
          IN  /\ chunks' = Append(chunks, PySlice(text, start, end))
              /\ start' = end - overlap
              /\ ct_pc' = IF end >= Len(text) THEN "done" ELSE "while"
     ELSE /\ ct_pc' = "done"
          /\ UNCHANGED <<chunks, start>>
  /\ UNCHANGED <<text, chunk_size, overlap, sentences, current_chunk,
                 current_length, overlap_sentences, idx>>

ChunkTextNext ==
  \/ ChunkEmptyText
  \/ ChunkSplit
  \/ ChunkNoSentences
  \/ ChunkSentence
  \/ ChunkLast
  \/ ChunkWindow

SpecChunk == ChunkTextInit /\ [][ChunkTextNext]_vars

\* chunk_text runs on: the interpreter takes the next step of the function
\* whenever there is one
SpecChunkFair == SpecChunk /\ WF_vars(ChunkTextNext)

(***************************************************************************)
(* Evidence aggregation: chatbot.py 55-112 (and its copy 277-333),         *)
(* outline.py 45-94.  Distances are in hundredths.                         *)
(***************************************************************************)
\* the literal 0.85 of `if distance < 0.85` in the chat functions
ChatThreshold == 85
\* the literal 0.85 of `if distance < 0.85` in generate_outline
OutlineThreshold == 85
\* the distance 1.0 given to a candidate the store reports no distance for
DefaultDistance == 100
\* chunks of one document that the chat functions keep
ChatCap == 5
\* chunks of one document that generate_outline keeps
OutlineCap == 8

UnknownDocument ==
  <<"U", "n", "k", "n", "o", "w", "n", " ", "D", "o", "c", "u", "m", "e", "n", "t">>

\* `metadatas[i] if i < len(metadatas) else {}` (i counts from 1 here)
MetadataAt(r, i) == IF i <= Len(r.metadatas) THEN r.metadatas[i] ELSE <<>>

\* `distances[i] if i < len(distances) else 1.0`
DistanceAt(r, i) == IF i <= Len(r.distances) THEN r.distances[i] ELSE DefaultDistance

\* the entry appended to a document's chunks
EvidenceItem(r, i) ==
  [text |-> r.documents[i], distance |-> DistanceAt(r, i), metadata |-> MetadataAt(r, i)]

\* ChatRelevant with the comparison made inclusive
ChatRelevantInclusive(distance) == distance <= ChatThreshold

\* `if distance < 0.85:` of the chat functions
ChatRelevant(distance) == distance < ChatThreshold

\* `if distance < 0.85:` of generate_outline
OutlineRelevant(distance) == distance < OutlineThreshold

\* d[key] = value
Put(d, key, value) == [k \in DOMAIN d \cup {key} |-> IF k = key THEN value ELSE d[k]]

\* the key the chat functions group a candidate under
ChatKey(metadata) == Get(metadata, "source", UnknownDocument)

RECURSIVE ChatGroup(_, _, _)
\* the loop `for i in range(len(documents)):` of the chat functions, from
\* candidate i on, acc being documents_data so far
ChatGroup(r, i, acc) ==
  IF i > Len(r.documents) THEN acc
  ELSE LET metadata == MetadataAt(r, i)
           source_title == ChatKey(metadata)
           source_author == Get(metadata, "author", <<>>)
           fresh == [author |-> IF source_author # <<>> THEN source_author ELSE NoneVal,
                     chunks |-> <<>>]
           base == IF source_title \in DOMAIN acc THEN acc
                   ELSE Put(acc, source_title, fresh)
       IN  IF ChatRelevant(DistanceAt(r, i))
           THEN ChatGroup(r, i + 1,
                  [base EXCEPT ![source_title].chunks = Append(@, EvidenceItem(r, i))])
           ELSE ChatGroup(r, i + 1, acc)

RECURSIVE InsertByDistance(_, _)
\* x put behind every element that is not farther than x
InsertByDistance(sorted, x) ==
  IF sorted = <<>> THEN <<x>>
  ELSE IF x.distance < Head(sorted).distance THEN <<x>> \o sorted
  ELSE <<Head(sorted)>> \o InsertByDistance(Tail(sorted), x)

RECURSIVE SortFrom(_, _, _)
SortFrom(seq, i, acc) ==
  IF i > Len(seq) THEN acc ELSE SortFrom(seq, i + 1, InsertByDistance(acc, seq[i]))

\* list.sort(key=lambda x: x['distance']): ascending and stable
SortByDistance(seq) == SortFrom(seq, 1, <<>>)

\* documents_data of the chat functions after grouping and sorting
ChatDocumentsData(r) ==
  LET grouped == ChatGroup(r, 1, <<>>)
  IN  [t \in DOMAIN grouped |->
         [grouped[t] EXCEPT !.chunks = SortByDistance(@)]]

\* ChatTopChunks without the slice
ChatTopChunksUncapped(doc_chunks) == doc_chunks

\* `chunks = doc_data['chunks'][:5]`
ChatTopChunks(doc_chunks) == Take(doc_chunks, ChatCap)

\* `chunks = documents_data[doc_name][:8]`
OutlineTopChunks(doc_chunks) == Take(doc_chunks, OutlineCap)

\* the texts of a sequence of evidence items
TextsOf(items) == [k \in 1..Len(items) |-> items[k].text]

\* source_authors of the chat functions
SourceAuthors(docs) ==
  [t \in {d \in DOMAIN docs : docs[d].author # NoneVal} |-> docs[t].author]

\* the evidence part of the chat prompt: one block per document in sorted
\* order, holding the texts of its top chunks
ChatContext(docs) ==
  LET source_documents == SortedKeys(DOMAIN docs)
  IN  [k \in 1..Len(source_documents) |->
         [source |-> source_documents[k],
          texts |-> TextsOf(ChatTopChunks(docs[source_documents[k]].chunks))]]

\* SourceChunksData for the documents with a known author only
SourceChunksOfAuthored(docs) ==
  [t \in {d \in DOMAIN docs : docs[d].author # NoneVal} |->
     [author |-> docs[t].author, chunks |-> Take(docs[t].chunks, ChatCap)]]

\* source_chunks_data of the chat functions
SourceChunksData(docs) ==
  [t \in DOMAIN docs |->
     [author |-> docs[t].author, chunks |-> ChatTopChunks(docs[t].chunks)]]

RECURSIVE AfterLast(_, _)
\* s.split(c)[-1]
AfterLast(s, c) ==
  IF \E i \in 1..Len(s) : s[i] = c
  THEN AfterLast(Tail(s), c)
  ELSE s

RECURSIVE BeforeLast(_, _)
\* c.join(s.split(c)[:-1]) for an s that contains c
BeforeLast(s, c) ==
  IF s[Len(s)] = c THEN SubSeq(s, 1, Len(s) - 1)
  ELSE BeforeLast(SubSeq(s, 1, Len(s) - 1), c)

\* s.replace('_', ' ').replace('-', ' ')
SpacesForDashes(s) == [i \in 1..Len(s) |-> IF s[i] \in {"_", "-"} THEN " " ELSE s[i]]

RECURSIVE CollapseSpaces(_)
\* ' '.join(s.split()) of an s without leading whitespace
CollapseSpaces(s) ==
  IF s = <<>> THEN <<>>
  ELSE IF IsSpace(Head(s))
       THEN LET rest == LStrip(s)
            IN  IF rest = <<>> THEN <<>> ELSE <<" ">> \o CollapseSpaces(rest)
       ELSE <<Head(s)>> \o CollapseSpaces(Tail(s))

\* utils.clean_filename
CleanFilename(filename) ==
  IF filename = <<>> THEN NoneVal
  ELSE LET base == AfterLast(filename, "/")
           stem == IF \E i \in 1..Len(base) : base[i] = "." THEN BeforeLast(base, ".")
                   ELSE base
       IN  Strip(CollapseSpaces(LStrip(SpacesForDashes(stem))))

\* the key generate_outline groups a candidate under
OutlineKey(metadata) ==
  LET filename == Get(metadata, "filename", UnknownDocument)
  IN  IF filename # UnknownDocument THEN CleanFilename(filename) ELSE UnknownDocument

RECURSIVE OutlineGroup(_, _, _)
\* the loop `for i in range(len(documents)):` of generate_outline
OutlineGroup(r, i, acc) ==
  IF i > Len(r.documents) THEN acc
  ELSE LET doc_name == OutlineKey(MetadataAt(r, i))
           base == IF doc_name \in DOMAIN acc THEN acc ELSE Put(acc, doc_name, <<>>)
       IN  IF OutlineRelevant(DistanceAt(r, i))
           THEN OutlineGroup(r, i + 1,
                  [base EXCEPT ![doc_name] = Append(@, EvidenceItem(r, i))])
           ELSE OutlineGroup(r, i + 1, acc)

\* documents_data of generate_outline after grouping and sorting
OutlineDocumentsData(r) ==
  LET grouped == OutlineGroup(r, 1, <<>>)
  IN  [t \in DOMAIN grouped |-> SortByDistance(grouped[t])]

\* the evidence part of the outline prompt
OutlineContext(docs) ==
  LET source_documents == SortedKeys(DOMAIN docs)
  IN  [k \in 1..Len(source_documents) |->
         [source |-> source_documents[k],
          texts |-> TextsOf(OutlineTopChunks(docs[source_documents[k]]))]]

(***************************************************************************)
(* Citation reconciliation: chatbot.py 179-201 (and its copy 388-416).     *)
(***************************************************************************)
\* the elements of a sequence
Range(seq) == {seq[i] : i \in 1..Len(seq)}

\* the index of the first c in s at or after i, 0 when there is none
FirstAt(s, c, i) ==
  IF \E j \in i..Len(s) : s[j] = c
  THEN CHOOSE j \in i..Len(s) : s[j] = c /\ \A k \in i..(j - 1) : s[k] # c
  ELSE 0

RECURSIVE FindCitations(_, _)
\* re.findall(r'\[([^\]]+)\]', s), scanning from index i
FindCitations(s, i) ==
  IF i > Len(s) THEN <<>>
  ELSE IF s[i] = "["
       THEN LET close == FirstAt(s, "]", i + 1)
            IN  IF close = 0 THEN <<>>
                ELSE IF close = i + 1 THEN FindCitations(s, i + 1)
                ELSE <<SubSeq(s, i + 1, close - 1)>> \o FindCitations(s, close + 1)
       ELSE FindCitations(s, i + 1)

RECURSIVE SplitSources(_, _)
\* re.split(r'[;,]', citation): the pieces from here on, cur being the piece
\* in progress
SplitSources(s, cur) ==
  IF s = <<>> THEN <<cur>>
  ELSE IF Head(s) \in {";", ","} THEN <<cur>> \o SplitSources(Tail(s), <<>>)
  ELSE SplitSources(Tail(s), Append(cur, Head(s)))

\* str.lower() on the characters of the model
LowerChar(c) ==
  CASE c = "A" -> "a" [] c = "B" -> "b" [] c = "D" -> "d" [] c = "U" -> "u"
    [] OTHER -> c

Lower(s) == [i \in 1..Len(s) |-> LowerChar(s[i])]

\* needle in hay
Contains(hay, needle) ==
  \E i \in 0..(Len(hay) - Len(needle)) : SubSeq(hay, i + 1, i + Len(needle)) = needle

\* the test that resolves a cited source to a document title
CitationMatches(source, doc_title) ==
  \/ Contains(Lower(doc_title), Lower(source))
  \/ Contains(Lower(source), Lower(doc_title))

\* the for/else over source_documents: the first title that matches, or the
\* source itself
ResolveSource(source, source_documents) ==
  IF \E k \in 1..Len(source_documents) : CitationMatches(source, source_documents[k])
  THEN source_documents[CHOOSE k \in 1..Len(source_documents) :
         /\ CitationMatches(source, source_documents[k])
         /\ \A j \in 1..(k - 1) : ~CitationMatches(source, source_documents[j])]
  ELSE source

RECURSIVE CiteSources(_, _, _)
\* `for source in sources:` for the pieces of one citation
CiteSources(pieces, source_documents, cited_sources) ==
  IF pieces = <<>> THEN cited_sources
  ELSE LET source == Strip(Head(pieces))
       IN  CiteSources(Tail(pieces), source_documents,
             IF source # <<>> /\ source \notin Range(cited_sources)
             THEN Append(cited_sources, ResolveSource(source, source_documents))
             ELSE cited_sources)

RECURSIVE CiteAll(_, _, _)
\* `for citation in citations:`
CiteAll(citations, source_documents, cited_sources) ==
  IF citations = <<>> THEN cited_sources
  ELSE CiteAll(Tail(citations), source_documents,
         CiteSources(SplitSources(Head(citations), <<>>), source_documents, cited_sources))

RECURSIVE Unique(_, _)
\* the `seen` loop: first occurrences, in order
Unique(seq, acc) ==
  IF seq = <<>> THEN acc
  ELSE Unique(Tail(seq), IF Head(seq) \in Range(acc) THEN acc ELSE Append(acc, Head(seq)))

\* unique_cited_sources for a response text
CitedSources(response_text, source_documents) ==
  Unique(CiteAll(FindCitations(response_text, 1), source_documents, <<>>), <<>>)

\* the orders list(set(xs)) can come in
Orderings(xs) ==
  {o \in [1..Cardinality(Range(xs)) -> Range(xs)] : Range(o) = Range(xs)}

\* most applications of the reconciliation to one text
MaxRuns == 2

\* pieces of generated text: citations of one and of two sources, a citation
\* in lower case, and text without citation
CitePieces ==
  {<<"[", "A", "]">>, <<"[", "b", ";", " ", "A", "B", "]">>, <<"[", "a", "]">>, <<"x">>}

\* the generated texts: up to two pieces
CiteTexts ==
  {<<>>} \cup CitePieces \cup {p \o q : p \in CitePieces, q \in CitePieces}

\* the lists of known identities, in the orders they can be handed over
IdentityLists == {<<>>, << <<"A">> >>, << <<"A">>, <<"A", "B">> >>, << <<"A", "B">>, <<"A">> >>}

CiteInit ==
  /\ generated_text \in CiteTexts
  /\ known_identities \in IdentityLists
  /\ cited_runs = <<>>
  /\ ChunkIdle
  /\ ChatIdle
  /\ DbIdle

\* the reconciliation with its result read out of a set
ReconcileInSetOrder ==
  /\ Len(cited_runs) < MaxRuns
  /\ \E o \in Orderings(CitedSources(generated_text, known_identities)) :
       cited_runs' = Append(cited_runs, o)
  /\ UNCHANGED <<generated_text, known_identities>>
  /\ UNCHANGED <<ct_vars, chat_vars, db_vars>>

\* one application of the reconciliation to the text and the identities
Reconcile ==
  /\ Len(cited_runs) < MaxRuns
  /\ cited_runs' = Append(cited_runs, CitedSources(generated_text, known_identities))
  /\ UNCHANGED <<generated_text, known_identities>>
  /\ UNCHANGED <<ct_vars, chat_vars, db_vars>>

CiteNext == Reconcile

SpecCite == CiteInit /\ [][CiteNext]_vars

(***************************************************************************)
(* What the two oracles can answer.                                        *)
(***************************************************************************)
MetaA == [source |-> <<"A">>, filename |-> <<"a", ".", "p">>, author |-> <<"x">>]

\* a chunk stored without title metadata
MetaUntitled == [filename |-> <<"a", ".", "p">>]

\* a document whose title contains the title of another one
MetaAB == [source |-> <<"A", "B">>, filename |-> <<"b", "_", "1", ".", "p">>]

Metas == {MetaA, MetaAB, MetaUntitled}

Distances == {81, 85, 90}

Candidates == [metadata : Metas, distance : Distances]

\* a store answer for the candidates cands whose metadatas and distances lists
\* hold nm and nd entries; the text of a chunk is its position in the answer
ResultOf(cands, nm, nd) ==
  [documents |-> [i \in 1..Len(cands) |-> i],
   metadatas |-> [i \in 1..nm |-> cands[i].metadata],
   distances |-> [i \in 1..nd |-> cands[i].distance]]

CandidateLists == UNION {[1..k -> Candidates] : k \in 0..MaxCand}

\* any short answer, complete or with the last metadata or distance missing
FreeResults ==
  {ResultOf(c, Len(c), Len(c)) : c \in CandidateLists}
    \cup {ResultOf(c, Len(c) - 1, Len(c)) : c \in CandidateLists \ {<<>>}}
    \cup {ResultOf(c, Len(c), Len(c) - 1) : c \in CandidateLists \ {<<>>}}

\* many chunks of one document, the farthest first
BulkResults ==
  {ResultOf([i \in 1..n |-> [metadata |-> m, distance |-> 80 - i]], n, n) :
     n \in 1..MaxBulk, m \in Metas}

\* the answers with distances 0.81, 0.86, 0.90
ExampleResults ==
  {ResultOf(<<[metadata |-> m, distance |-> 81], [metadata |-> m, distance |-> 86],
             [metadata |-> n, distance |-> 90]>>, 3, 3) : m, n \in Metas}

QueryResults == FreeResults \cup BulkResults \cup ExampleResults

\* what the generation oracle can hand over: an object with a text and, when
\* candidates is set, the parts of its first candidate
NoContent == [text |-> <<>>, candidates |-> FALSE, parts |-> <<>>]

PlainText == [text |-> <<"x">>, candidates |-> FALSE, parts |-> <<>>]

PartText == [text |-> <<>>, candidates |-> TRUE, parts |-> << <<"[", "A", "]">> >>]

EmptyPart == [text |-> <<>>, candidates |-> TRUE, parts |-> << <<>> >>]

NoParts == [text |-> <<>>, candidates |-> TRUE, parts |-> <<>>]

\* a text with one bracketed span of two sources: "[b; AB]"
CitesTwo ==
  [text |-> <<"[", "b", ";", " ", "A", "B", "]">>, candidates |-> FALSE, parts |-> <<>>]

\* the increments of a generation stream
StreamObjects == {NoContent, PlainText, PartText, CitesTwo}

\* the answers of a one-shot generation
ResponseObjects == {NoContent, PlainText, PartText, EmptyPart, NoParts}

\* the text the streaming loops take from one increment
ChunkText(chunk) ==
  IF chunk.text # <<>> THEN chunk.text
  ELSE IF chunk.candidates /\ chunk.parts # <<>> THEN chunk.parts[1]
  ELSE <<>>

(***************************************************************************)
(* Records the operations yield or return.                                 *)
(***************************************************************************)
\* json.dumps(record) + "\n"
Line(record) == [record |-> record, end |-> "\n"]

\* an error message is the sequence of its parts: one part for a literal, the
\* literal and str(e) for an f-string
ConfigError ==
  [error |-> <<"Gemini API key or model not configured. Please set GEMINI_API_KEY and GEMINI_API_MODEL in .env file">>]

FolderError == [error |-> <<"folder_name is required">>]

MessageError == [error |-> <<"message is required">>]

\* the three checks before the try block of the chat functions all pass
ChatValid == configured /\ folder_name # <<>> /\ Strip(message) # <<>>

\* the record of the first of those checks that fails
ChatRejection ==
  IF ~configured THEN ConfigError
  ELSE IF folder_name = <<>> THEN FolderError
  ELSE MessageError

\* the two checks before the try block of generate_outline both pass
OutlineValid == configured /\ folder_name # <<>>

OutlineRejection == IF ~configured THEN ConfigError ELSE FolderError

\* the record of the except clause of process_chat_query_stream
ErrorRecord(e) == [type |-> "error", error |-> <<"Error generating response: ", e>>]

\* the dictionary of the except clause of process_chat_query
ChatFailure(e) ==
  [error |-> <<"Error generating response: ", e>>, response |-> NoneVal, sources |-> <<>>]

\* NoEvidenceRecord reported the way a failed generation is
NoEvidenceAsFailure == ChatFailure("generation")

\* both chat functions, no document left after the distance test
NoEvidenceRecord ==
  [error |-> <<"No relevant information found in the folder for this question.">>,
   response |-> NoneVal, sources |-> <<>>]

MetadataRecord(docs) ==
  [type |-> "metadata", sources |-> SortedKeys(DOMAIN docs),
   source_authors |-> SourceAuthors(docs)]

\* ChunkRecord with the increment cut to its first character
ChunkRecordTruncated(content) == [type |-> "chunk", content |-> Take(content, 1)]

\* the record one increment with text is yielded as
ChunkRecord(content) == [type |-> "chunk", content |-> content]

CompleteRecord(response_text, docs) ==
  [type |-> "complete",
   sources |-> CitedSources(response_text, SortedKeys(DOMAIN docs)),
   source_chunks |-> SourceChunksData(docs)]

\* what of the chat prompt depends on the call
ChatPrompt(docs) ==
  [message |-> message, source_documents |-> SortedKeys(DOMAIN docs),
   context |-> ChatContext(docs)]

\* what of the outline prompt depends on the call
OutlinePrompt(docs) ==
  [question |-> message, source_documents |-> SortedKeys(DOMAIN docs),
   context |-> OutlineContext(docs)]

OutlineNoEvidenceRecord ==
  [question |-> message, outline |-> NoneVal,
   error |-> <<"No relevant chunks found for this question.">>]

\* the dictionary of the except clause of generate_outline
OutlineFailure(e) ==
  [question |-> message, outline |-> NoneVal,
   error |-> <<"Error generating outline: ", e>>]

\* StreamFailure with the exception swallowed: no line is yielded
StreamFailureSilent(lines, e) == lines

\* the except clause of process_chat_query_stream: one error line
StreamFailure(lines, e) == Append(lines, Line(ErrorRecord(e)))

\* AfterNoEvidence without the `return`: the generator goes on to generation
AfterNoEvidenceFallsThrough == "meta"

\* where process_chat_query_stream is after yielding NoEvidenceRecord: the
\* `return` that follows the yield
AfterNoEvidence == "done"

(***************************************************************************)
(* A call of one of the three operations.                                  *)
(***************************************************************************)
\* the filename the methods are called with
Filename == <<"a", ".", "p">>

\* one stored chunk
Stored(id, document, index, total, folder, title, author) ==
  [id |-> id, document |-> document,
   metadata |-> [chunk_index |-> index, total_chunks |-> total,
                 folder_name |-> folder, source |-> title,
                 author |-> author, filename |-> Filename]]

\* a collection holding a document of two chunks and one of one chunk in
\* folder f, and a chunk of another folder
TwoDocuments ==
  <<Stored(1, <<"a", ".">>, 0, 2, <<"f">>, <<"A">>, <<>>),
    Stored(2, <<"a">>, 0, 1, <<"f">>, <<"B">>, <<"x">>),
    Stored(3, <<"a", "a", ".">>, 1, 2, <<"f">>, <<"A">>, <<>>),
    Stored(4, <<"a">>, 0, 1, <<"g">>, <<"A">>, <<>>)>>

\* no Database method is in progress; the collection holds documents
DbQuiet ==
  /\ db_op = "none"
  /\ db_folder = <<>>
  /\ db_configured = FALSE
  /\ db_pc = "idle"
  /\ store = TwoDocuments
  /\ before = store
  /\ pages = <<>>
  /\ batch_start = 0
  /\ all_chunks = <<>>
  /\ all_text_parts = <<>>
  /\ documents_chunks = <<>>
  /\ doc_pos = 0
  /\ updated_count = 0
  /\ errors = <<>>
  /\ db_result = NotSet
  /\ add_calls = 0
  /\ delete_calls = 0
  /\ db_text = <<>>
  /\ db_filename = <<>>
  /\ doc_metadata = NotSet
  /\ oracle_calls = 0

\* the lists of questions a generate-outline request can carry
QuestionLists == {<<>>, << <<"q">> >>, << <<"q">>, <<"r">> >>}

CallInit ==
  /\ op \in {"stream", "chat", "outline"}
  /\ configured \in BOOLEAN
  /\ folder_name \in {<<>>, <<"f">>}
  /\ \/ /\ questions = NoneVal
        /\ message \in {<<>>, <<" ">>, <<"q">>}
        /\ pc = "start"
     \/ /\ op = "outline"
        /\ questions \in QuestionLists
        /\ message = <<>>
        /\ pc = "request"
  /\ outlines = <<>>
  /\ query_results = NotSet
  /\ documents_data = <<>>
  /\ prompt = NotSet
  /\ full_response = <<>>
  /\ out = <<>>
  /\ result = NotSet
  /\ generated = <<>>
  /\ gen_state = "idle"
  /\ query_calls = 0
  /\ generate_calls = 0
  /\ ChunkIdle
  /\ DbQuiet
  /\ CiteIdle

(***************************************************************************)
(* chatbot.process_chat_query_stream: each action runs the generator from  *)
(* one yield or oracle call to the next.                                   *)
(***************************************************************************)
\* one of the three checks fails: one line, return
StreamReject ==
  /\ op = "stream" /\ pc = "start"
  /\ ~ChatValid
  /\ out' = <<Line(ChatRejection)>>
  /\ pc' = "done"
  /\ UNCHANGED <<op, configured, folder_name, message, query_results,
                 documents_data, prompt, full_response, result, generated,
                 gen_state, query_calls, generate_calls>>
  /\ UNCHANGED <<ct_vars, db_vars, cite_vars, questions, outlines>>

\* collection.query raises
StreamQueryFails ==
  /\ op = "stream" /\ pc = "start"
  /\ ChatValid
  /\ query_calls' = query_calls + 1
  /\ out' = StreamFailure(out, "store")
  /\ pc' = "done"
  /\ UNCHANGED <<op, configured, folder_name, message, query_results,
                 documents_data, prompt, full_response, result, generated,
                 gen_state, generate_calls>>
  /\ UNCHANGED <<ct_vars, db_vars, cite_vars, questions, outlines>>

\* the store answers and no candidate passes the distance test
StreamNoEvidence ==
  /\ op = "stream" /\ pc = "start"
  /\ ChatValid
  /\ \E r \in QueryResults :
       /\ DOMAIN ChatDocumentsData(r) = {}
       /\ query_results' = r
  /\ query_calls' = query_calls + 1
  /\ documents_data' = <<>>
  /\ out' = <<Line(NoEvidenceRecord)>>
  /\ pc' = AfterNoEvidence
  /\ UNCHANGED <<op, configured, folder_name, message, prompt, full_response,
                 result, generated, gen_state, generate_calls>>
  /\ UNCHANGED <<ct_vars, db_vars, cite_vars, questions, outlines>>

\* the store answers with evidence: the prompt is built, metadata is yielded
StreamMetadata ==
  /\ op = "stream" /\ pc = "start"
  /\ ChatValid
  /\ \E r \in QueryResults :
       /\ DOMAIN ChatDocumentsData(r) # {}
       /\ query_results' = r
       /\ documents_data' = ChatDocumentsData(r)
       /\ prompt' = ChatPrompt(ChatDocumentsData(r))
       /\ out' = <<Line(MetadataRecord(ChatDocumentsData(r)))>>
  /\ query_calls' = query_calls + 1
  /\ pc' = "meta"
  /\ UNCHANGED <<op, configured, folder_name, message, full_response, result,
                 generated, gen_state, generate_calls>>
  /\ UNCHANGED <<ct_vars, db_vars, cite_vars, questions, outlines>>

\* generate_content_stream raises
StreamOpenFails ==
  /\ op = "stream" /\ pc = "meta"
  /\ generate_calls' = generate_calls + 1
  /\ gen_state' = "failed"
  /\ out' = StreamFailure(out, "generation")
  /\ pc' = "done"
  /\ UNCHANGED <<op, configured, folder_name, message, query_results,
                 documents_data, prompt, full_response, result, generated,
                 query_calls>>
  /\ UNCHANGED <<ct_vars, db_vars, cite_vars, questions, outlines>>

\* generate_content_stream returns the stream
StreamOpen ==
  /\ op = "stream" /\ pc = "meta"
  /\ generate_calls' = generate_calls + 1
  /\ gen_state' = "open"
  /\ full_response' = <<>>
  /\ pc' = "stream"
  /\ UNCHANGED <<op, configured, folder_name, message, query_results,
                 documents_data, prompt, out, result, generated, query_calls>>
  /\ UNCHANGED <<ct_vars, db_vars, cite_vars, questions, outlines>>

\* the stream hands over one increment; one with text is yielded as a chunk
StreamPull ==
  /\ op = "stream" /\ pc = "stream"
  /\ Len(generated) < MaxPulls
  /\ \E chunk \in StreamObjects :
       /\ generated' = Append(generated, chunk)
       /\ IF ChunkText(chunk) # <<>>
          THEN /\ full_response' = full_response \o ChunkText(chunk)
               /\ out' = Append(out, Line(ChunkRecord(ChunkText(chunk))))
          ELSE UNCHANGED <<full_response, out>>
  /\ UNCHANGED <<op, configured, folder_name, message, pc, query_results,
                 documents_data, prompt, result, gen_state, query_calls,
                 generate_calls>>
  /\ UNCHANGED <<ct_vars, db_vars, cite_vars, questions, outlines>>

\* the stream raises while the next increment is pulled
StreamPullFails ==
  /\ op = "stream" /\ pc = "stream"
  /\ gen_state' = "failed"
  /\ out' = StreamFailure(out, "generation")
  /\ pc' = "done"
  /\ UNCHANGED <<op, configured, folder_name, message, query_results,
                 documents_data, prompt, full_response, result, generated,
                 query_calls, generate_calls>>
  /\ UNCHANGED <<ct_vars, db_vars, cite_vars, questions, outlines>>

\* the stream is exhausted: citations are reconciled, complete is yielded
StreamComplete ==
  /\ op = "stream" /\ pc = "stream"
  /\ gen_state' = "exhausted"
  /\ out' = Append(out, Line(CompleteRecord(full_response, documents_data)))
  /\ pc' = "done"
  /\ UNCHANGED <<op, configured, folder_name, message, query_results,
                 documents_data, prompt, full_response, result, generated,
                 query_calls, generate_calls>>
  /\ UNCHANGED <<ct_vars, db_vars, cite_vars, questions, outlines>>

\* the consumer closes the generator and the store is cleaned up
StreamAbandonedWithDelete ==
  /\ op = "stream"
  /\ \/ pc = "meta"
     \/ /\ pc = "stream" /\ generated # <<>>
        /\ ChunkText(generated[Len(generated)]) # <<>>
  /\ pc' = "abandoned"
  /\ store' = <<>>
  /\ delete_calls' = delete_calls + 1
  /\ UNCHANGED <<op, configured, folder_name, message, query_results,
                 documents_data, prompt, full_response, out, result, generated,
                 gen_state, query_calls, generate_calls, questions, outlines>>
  /\ UNCHANGED <<db_op, db_folder, db_configured, db_pc, before, pages,
                 batch_start, all_chunks, all_text_parts, documents_chunks,
                 doc_pos, updated_count, errors, db_result, add_calls, db_text,
                 db_filename, doc_metadata, oracle_calls>>
  /\ UNCHANGED <<ct_vars, cite_vars>>

\* the generator is suspended at the yield of the metadata line or of a chunk
\* line
SuspendedAtYield ==
  /\ op = "stream"
  /\ \/ pc = "meta"
     \/ /\ pc = "stream" /\ generated # <<>>
        /\ ChunkText(generated[Len(generated)]) # <<>>

\* the consumer closes the generator: GeneratorExit is raised at the yield,
\* `except Exception` does not catch it, nothing more is yielded
StreamAbandon ==
  /\ SuspendedAtYield
  /\ pc' = "abandoned"
  /\ UNCHANGED <<op, configured, folder_name, message, query_results,
                 documents_data, prompt, full_response, out, result, generated,
                 gen_state, query_calls, generate_calls>>
  /\ UNCHANGED <<ct_vars, db_vars, cite_vars, questions, outlines>>

(***************************************************************************)
(* chatbot.process_chat_query                                              *)
(***************************************************************************)
\* one of the three checks fails
ChatReject ==
  /\ op = "chat" /\ pc = "start"
  /\ ~ChatValid
  /\ result' = ChatRejection
  /\ pc' = "done"
  /\ UNCHANGED <<op, configured, folder_name, message, query_results,
                 documents_data, prompt, full_response, out, generated,
                 gen_state, query_calls, generate_calls>>
  /\ UNCHANGED <<ct_vars, db_vars, cite_vars, questions, outlines>>

\* collection.query raises
ChatQueryFails ==
  /\ op = "chat" /\ pc = "start"
  /\ ChatValid
  /\ query_calls' = query_calls + 1
  /\ result' = ChatFailure("store")
  /\ pc' = "done"
  /\ UNCHANGED <<op, configured, folder_name, message, query_results,
                 documents_data, prompt, full_response, out, generated,
                 gen_state, generate_calls>>
  /\ UNCHANGED <<ct_vars, db_vars, cite_vars, questions, outlines>>

\* the store answers and no candidate passes the distance test
ChatNoEvidence ==
  /\ op = "chat" /\ pc = "start"
  /\ ChatValid
  /\ \E r \in QueryResults :
       /\ DOMAIN ChatDocumentsData(r) = {}
       /\ query_results' = r
  /\ query_calls' = query_calls + 1
  /\ documents_data' = <<>>
  /\ result' = NoEvidenceRecord
  /\ pc' = "done"
  /\ UNCHANGED <<op, configured, folder_name, message, prompt, full_response,
                 out, generated, gen_state, generate_calls>>
  /\ UNCHANGED <<ct_vars, db_vars, cite_vars, questions, outlines>>

\* the store answers with evidence: the prompt is built
ChatEvidence ==
  /\ op = "chat" /\ pc = "start"
  /\ ChatValid
  /\ \E r \in QueryResults :
       /\ DOMAIN ChatDocumentsData(r) # {}
       /\ query_results' = r
       /\ documents_data' = ChatDocumentsData(r)
       /\ prompt' = ChatPrompt(ChatDocumentsData(r))
  /\ query_calls' = query_calls + 1
  /\ pc' = "prompted"
  /\ UNCHANGED <<op, configured, folder_name, message, full_response, out,
                 result, generated, gen_state, generate_calls>>
  /\ UNCHANGED <<ct_vars, db_vars, cite_vars, questions, outlines>>

\* the increments a generation stream can hand over before it ends or raises
StreamRuns == UNION {[1..k -> StreamObjects] : k \in 0..MaxPulls}

\* response_text after the increments of run were collected
Collected(run) == Flatten([k \in 1..Len(run) |-> ChunkText(run[k])])

\* generate_content_stream raises, or the stream raises after some increments
ChatGenerationFails ==
  /\ op = "chat" /\ pc = "prompted"
  /\ \E run \in StreamRuns :
       /\ generated' = run
       /\ full_response' = Collected(run)
  /\ generate_calls' = generate_calls + 1
  /\ gen_state' = "failed"
  /\ result' = ChatFailure("generation")
  /\ pc' = "done"
  /\ UNCHANGED <<op, configured, folder_name, message, query_results,
                 documents_data, prompt, out, query_calls>>
  /\ UNCHANGED <<ct_vars, db_vars, cite_vars, questions, outlines>>

\* the stream ends and response_text is empty: ValueError, caught
ChatEmptyResponse ==
  /\ op = "chat" /\ pc = "prompted"
  /\ \E run \in StreamRuns :
       /\ Collected(run) = <<>>
       /\ generated' = run
  /\ full_response' = <<>>
  /\ generate_calls' = generate_calls + 1
  /\ gen_state' = "exhausted"
  /\ result' = ChatFailure("No text content in response")
  /\ pc' = "done"
  /\ UNCHANGED <<op, configured, folder_name, message, query_results,
                 documents_data, prompt, out, query_calls>>
  /\ UNCHANGED <<ct_vars, db_vars, cite_vars, questions, outlines>>

\* the stream ends with text: citations are reconciled, the answer returned;
\* list(set(cited_sources)) comes in any order
ChatAnswer ==
  /\ op = "chat" /\ pc = "prompted"
  /\ \E run \in StreamRuns :
       /\ Collected(run) # <<>>
       /\ generated' = run
       /\ full_response' = Collected(run)
       /\ \E sources \in
              Orderings(CitedSources(Collected(run), SortedKeys(DOMAIN documents_data))) :
            result' = [response |-> Collected(run),
                       sources |-> sources,
                       all_available_sources |-> SortedKeys(DOMAIN documents_data),
                       source_authors |-> SourceAuthors(documents_data),
                       source_chunks |-> SourceChunksData(documents_data)]
  /\ generate_calls' = generate_calls + 1
  /\ gen_state' = "exhausted"
  /\ pc' = "done"
  /\ UNCHANGED <<op, configured, folder_name, message, query_results,
                 documents_data, prompt, out, query_calls>>
  /\ UNCHANGED <<ct_vars, db_vars, cite_vars, questions, outlines>>

(***************************************************************************)
(* outline.generate_outline                                                *)
(***************************************************************************)
\* one of the two checks fails
OutlineReject ==
  /\ op = "outline" /\ pc = "start"
  /\ ~OutlineValid
  /\ result' = OutlineRejection
  /\ pc' = "done"
  /\ UNCHANGED <<op, configured, folder_name, message, query_results,
                 documents_data, prompt, full_response, out, generated,
                 gen_state, query_calls, generate_calls>>
  /\ UNCHANGED <<ct_vars, db_vars, cite_vars, questions, outlines>>

\* collection.query raises
OutlineQueryFails ==
  /\ op = "outline" /\ pc = "start"
  /\ OutlineValid
  /\ query_calls' = query_calls + 1
  /\ result' = OutlineFailure("store")
  /\ pc' = "done"
  /\ UNCHANGED <<op, configured, folder_name, message, query_results,
                 documents_data, prompt, full_response, out, generated,
                 gen_state, generate_calls>>
  /\ UNCHANGED <<ct_vars, db_vars, cite_vars, questions, outlines>>

\* the store answers and no candidate passes the distance test
OutlineNoEvidence ==
  /\ op = "outline" /\ pc = "start"
  /\ OutlineValid
  /\ \E r \in QueryResults :
       /\ DOMAIN OutlineDocumentsData(r) = {}
       /\ query_results' = r
  /\ query_calls' = query_calls + 1
  /\ documents_data' = <<>>
  /\ result' = OutlineNoEvidenceRecord
  /\ pc' = "done"
  /\ UNCHANGED <<op, configured, folder_name, message, prompt, full_response,
                 out, generated, gen_state, generate_calls>>
  /\ UNCHANGED <<ct_vars, db_vars, cite_vars, questions, outlines>>

\* the store answers with evidence: the prompt is built
OutlineEvidence ==
  /\ op = "outline" /\ pc = "start"
  /\ OutlineValid
  /\ \E r \in QueryResults :
       /\ DOMAIN OutlineDocumentsData(r) # {}
       /\ query_results' = r
       /\ documents_data' = OutlineDocumentsData(r)
       /\ prompt' = OutlinePrompt(OutlineDocumentsData(r))
  /\ query_calls' = query_calls + 1
  /\ pc' = "prompted"
  /\ UNCHANGED <<op, configured, folder_name, message, full_response, out,
                 result, generated, gen_state, generate_calls>>
  /\ UNCHANGED <<ct_vars, db_vars, cite_vars, questions, outlines>>

\* the response has a text, or a first candidate with a first part
HasOutlineText(response) ==
  response.text # <<>> \/ (response.candidates /\ response.parts # <<>>)

\* outline_text
OutlineText(response) ==
  IF response.text # <<>> THEN response.text ELSE response.parts[1]

\* generate_content raises and is called once more
OutlineGenerationRetried ==
  /\ op = "outline" /\ pc = "prompted"
  /\ generate_calls < 2
  /\ generate_calls' = generate_calls + 1
  /\ UNCHANGED <<op, configured, folder_name, message, pc, query_results,
                 documents_data, prompt, full_response, out, result, generated,
                 gen_state, query_calls>>
  /\ UNCHANGED <<ct_vars, db_vars, cite_vars, questions, outlines>>

\* generate_content raises
OutlineGenerationFails ==
  /\ op = "outline" /\ pc = "prompted"
  /\ generate_calls' = generate_calls + 1
  /\ gen_state' = "failed"
  /\ result' = OutlineFailure("generation")
  /\ pc' = "done"
  /\ UNCHANGED <<op, configured, folder_name, message, query_results,
                 documents_data, prompt, full_response, out, generated,
                 query_calls>>
  /\ UNCHANGED <<ct_vars, db_vars, cite_vars, questions, outlines>>

\* generate_content returns a response no text can be taken from: ValueError
\* without candidates, IndexError for a candidate without parts, both caught
OutlineNoText ==
  /\ op = "outline" /\ pc = "prompted"
  /\ \E response \in ResponseObjects :
       /\ ~HasOutlineText(response)
       /\ generated' = <<response>>
       /\ result' = OutlineFailure(IF response.candidates
                                   THEN "list index out of range"
                                   ELSE "No text content in response")
  /\ generate_calls' = generate_calls + 1
  /\ gen_state' = "exhausted"
  /\ pc' = "done"
  /\ UNCHANGED <<op, configured, folder_name, message, query_results,
                 documents_data, prompt, full_response, out, query_calls>>
  /\ UNCHANGED <<ct_vars, db_vars, cite_vars, questions, outlines>>

\* generate_content returns a response with a text or a first part
OutlineAnswer ==
  /\ op = "outline" /\ pc = "prompted"
  /\ \E response \in ResponseObjects :
       /\ HasOutlineText(response)
       /\ generated' = <<response>>
       /\ full_response' = OutlineText(response)
       /\ result' = [question |-> message,
                     outline |-> OutlineText(response),
                     sources_used |-> Cardinality(DOMAIN documents_data),
                     source_documents |-> SortedKeys(DOMAIN documents_data)]
  /\ generate_calls' = generate_calls + 1
  /\ gen_state' = "exhausted"
  /\ pc' = "done"
  /\ UNCHANGED <<op, configured, folder_name, message, query_results,
                 documents_data, prompt, out, query_calls>>
  /\ UNCHANGED <<ct_vars, db_vars, cite_vars, questions, outlines>>

(***************************************************************************)
(* endpoints.generate_outline_endpoint: the loop over request.questions,   *)
(* each iteration one call of generate_outline.                            *)
(***************************************************************************)
\* the two checks before the loop
EndpointReject ==
  /\ op = "outline" /\ pc = "request"
  /\ ~OutlineValid
  /\ result' = OutlineRejection
  /\ pc' = "returned"
  /\ UNCHANGED <<op, configured, folder_name, message, query_results,
                 documents_data, prompt, full_response, out, generated,
                 gen_state, query_calls, generate_calls, questions, outlines>>
  /\ UNCHANGED <<ct_vars, db_vars, cite_vars>>

\* `outlines = []`
EndpointValid ==
  /\ op = "outline" /\ pc = "request"
  /\ OutlineValid
  /\ outlines' = <<>>
  /\ pc' = "next"
  /\ UNCHANGED <<op, configured, folder_name, message, query_results,
                 documents_data, prompt, full_response, out, result, generated,
                 gen_state, query_calls, generate_calls, questions>>
  /\ UNCHANGED <<ct_vars, db_vars, cite_vars>>

\* `for question in questions:` has a next question: generate_outline is
\* entered with it
EndpointCall ==
  /\ op = "outline" /\ pc = "next"
  /\ Len(outlines) < Len(questions)
  /\ message' = questions[Len(outlines) + 1]
  /\ pc' = "start"
  /\ UNCHANGED <<op, configured, folder_name, query_results, documents_data,
                 prompt, full_response, out, result, generated, gen_state,
                 query_calls, generate_calls, questions, outlines>>
  /\ UNCHANGED <<ct_vars, db_vars, cite_vars>>

\* the loop with a `break` after an error entry
EndpointAppendStopsAtError ==
  /\ op = "outline" /\ pc = "done"
  /\ questions # NoneVal
  /\ outlines' = Append(outlines, result)
  /\ IF "error" \in DOMAIN result
     THEN /\ result' = [outlines |-> Append(outlines, result)]
          /\ pc' = "returned"
     ELSE /\ result' = result
          /\ pc' = "next"
  /\ query_results' = NotSet
  /\ documents_data' = <<>>
  /\ prompt' = NotSet
  /\ full_response' = <<>>
  /\ generated' = <<>>
  /\ gen_state' = "idle"
  /\ query_calls' = 0
  /\ generate_calls' = 0
  /\ UNCHANGED <<op, configured, folder_name, message, out, questions>>
  /\ UNCHANGED <<ct_vars, db_vars, cite_vars>>

\* generate_outline has returned, its locals are gone and its oracle call is
\* over: `outlines.append(result)`
EndpointAppend ==
  /\ op = "outline" /\ pc = "done"
  /\ questions # NoneVal
  /\ outlines' = Append(outlines, result)
  /\ query_results' = NotSet
  /\ documents_data' = <<>>
  /\ prompt' = NotSet
  /\ full_response' = <<>>
  /\ generated' = <<>>
  /\ gen_state' = "idle"
  /\ query_calls' = 0
  /\ generate_calls' = 0
  /\ pc' = "next"
  /\ UNCHANGED <<op, configured, folder_name, message, out, result, questions>>
  /\ UNCHANGED <<ct_vars, db_vars, cite_vars>>

\* after the loop: `return {"outlines": outlines}`
EndpointReturn ==
  /\ op = "outline" /\ pc = "next"
  /\ Len(outlines) >= Len(questions)
  /\ result' = [outlines |-> outlines]
  /\ pc' = "returned"
  /\ UNCHANGED <<op, configured, folder_name, message, query_results,
                 documents_data, prompt, full_response, out, generated,
                 gen_state, query_calls, generate_calls, questions, outlines>>
  /\ UNCHANGED <<ct_vars, db_vars, cite_vars>>

Next ==
  \/ StreamReject
  \/ StreamQueryFails
  \/ StreamNoEvidence
  \/ StreamMetadata
  \/ StreamOpenFails
  \/ StreamOpen
  \/ StreamPull
  \/ StreamPullFails
  \/ StreamComplete
  \/ StreamAbandon
  \/ ChatReject
  \/ ChatQueryFails
  \/ ChatNoEvidence
  \/ ChatEvidence
  \/ ChatGenerationFails
  \/ ChatEmptyResponse
  \/ ChatAnswer
  \/ OutlineReject
  \/ OutlineQueryFails
  \/ OutlineNoEvidence
  \/ OutlineEvidence
  \/ OutlineGenerationFails
  \/ OutlineNoText
  \/ OutlineAnswer
  \/ EndpointReject
  \/ EndpointValid
  \/ EndpointCall
  \/ EndpointAppend
  \/ EndpointReturn

Spec == CallInit /\ [][Next]_vars

(***************************************************************************)
(* utils.chunk_text as the callers of database.py see it: the value it     *)
(* returns for its arguments.                                              *)
(***************************************************************************)
\* `chunk_size: int = 500`
DefaultChunkSize == 500

\* `overlap: int = 100`
DefaultOverlap == 100

RECURSIVE SentencePass(_, _, _, _, _, _, _)
\* the for loop over sentences from sentence i on, and the last chunk
SentencePass(ss, i, done, cur_chunk, cur_length, size, ov) ==
  IF i > Len(ss)
  THEN IF cur_chunk # <<>> THEN Append(done, Join(cur_chunk)) ELSE done
  ELSE LET sentence == ss[i]
           sel == SelectOverlap(cur_chunk, ov)
       IN  IF Overflows(cur_length, Len(sentence), size, cur_chunk)
           THEN SentencePass(ss, i + 1, Append(done, Join(cur_chunk)),
                             SeedChunk(sel.sents, sentence),
                             SeedLength(sel.length, Len(sentence)), size, ov)
           ELSE SentencePass(ss, i + 1, done, Append(cur_chunk, sentence),
                             cur_length + Len(sentence) + 1, size, ov)

RECURSIVE WindowPass(_, _, _, _, _)
\* the while loop of the fallback from position from on, followed for at most
\* MaxIter iterations
WindowPass(t, from, done, size, ov) ==
  IF Len(done) >= MaxIter \/ from >= Len(t) THEN done
  ELSE LET end == from + size
           more == Append(done, PySlice(t, from, end))
       IN  IF end >= Len(t) THEN more ELSE WindowPass(t, end - ov, more, size, ov)

\* chunk_text(t, size, ov)
chunk_text(t, size, ov) ==
  IF t = <<>> THEN <<>>
  ELSE LET ss == SplitSentences(t)
       IN  IF ss = <<>> THEN WindowPass(t, 0, <<>>, size, ov)
           ELSE SentencePass(ss, 1, <<>>, <<>>, 0, size, ov)

(***************************************************************************)
(* database.Database: the collection and what the methods are called with. *)
(***************************************************************************)
\* most pages of a PDF the model hands to ocr_pdf
MaxPages == 31

\* `batch_size = 30`
BatchSize == 30

\* what OCR reads off one page: nothing, a sentence, words without a full stop
PageTexts == {<<>>, <<"a", ".">>, <<"a">>}

\* the OCR texts of the pages of a PDF: blank pages but for at most two
PdfPages ==
  {[k \in 1..n |-> IF k = i THEN x ELSE IF k = j THEN y ELSE <<>>] :
     n \in 1..MaxPages, i \in 1..MaxPages, j \in {1, MaxPages - 1, MaxPages},
     x \in PageTexts, y \in PageTexts}

\* what extract_title_and_author can return: a title read off the text or the
\* cleaned filename, with an author or without
TitlesAndAuthors ==
  [title : {<<"A">>, CleanFilename(Filename)}, author : {NoneVal, <<"x">>}]

\* `if gemini_client and gemini_model and text:` the oracle is asked for the
\* title and the author of text t
OracleAsked(t) == db_configured /\ t # <<>>

\* what extract_title_and_author returns for text t: without the oracle, or
\* when its call raises, the author is None
Extracted(t) ==
  IF OracleAsked(t) THEN TitlesAndAuthors
  ELSE {d \in TitlesAndAuthors : d.author = NoneVal}

\* the texts store_text is called with
StoreTexts == {<<>>, <<"a", ".">>, <<"a", ".", " ", "a">>}

\* the collections a method can find
Stores == {<<>>, SubSeq(TwoDocuments, 4, 4), SubSeq(TwoDocuments, 2, 2), TwoDocuments}

\* ids no stored chunk has: str(uuid.uuid4()) for the n-th new chunk
FreshId(n) == Len(TwoDocuments) + n

RECURSIVE JoinPages(_)
\* "\n\n".join(parts)
JoinPages(parts) ==
  IF parts = <<>> THEN <<>>
  ELSE IF Len(parts) = 1 THEN parts[1]
  ELSE parts[1] \o <<"\n", "\n">> \o JoinPages(Tail(parts))

\* a method raised: the exception leaves the method
Raised == [raised |-> TRUE]

DbInit ==
  /\ db_op \in {"store_text", "ocr_pdf", "update_document_authors"}
  /\ db_folder \in {<<>>, <<" ">>, <<"f">>}
  /\ db_configured \in BOOLEAN
  /\ db_pc = "start"
  /\ IF db_op = "ocr_pdf"
     THEN pages \in PdfPages /\ store \in {<<>>, TwoDocuments}
     ELSE pages = <<>> /\ store \in Stores
  /\ IF db_op = "store_text"
     THEN db_text \in StoreTexts /\ db_filename \in {<<>>, Filename}
     ELSE db_text = <<>> /\ db_filename = Filename
  /\ doc_metadata = NotSet
  /\ oracle_calls = 0
  /\ before = store
  /\ batch_start = 0
  /\ all_chunks = <<>>
  /\ all_text_parts = <<>>
  /\ documents_chunks = <<>>
  /\ doc_pos = 0
  /\ updated_count = 0
  /\ errors = <<>>
  /\ db_result = NotSet
  /\ add_calls = 0
  /\ delete_calls = 0
  /\ ChatIdle
  /\ ChunkIdle
  /\ CiteIdle

(***************************************************************************)
(* Database.store_text                                                     *)
(***************************************************************************)
FilenameError == [error |-> <<"filename is required">>]

\* the first of the two checks that fails
StoreRejection == IF db_folder = <<>> THEN FolderError ELSE FilenameError

\* store_text without the check of filename
StoreValidWithoutFilename == db_folder # <<>>

StoreValid == db_folder # <<>> /\ db_filename # <<>>

\* `if not folder_name` or `if not filename`
StoreReject ==
  /\ db_op = "store_text" /\ db_pc = "start"
  /\ ~StoreValid
  /\ db_result' = StoreRejection
  /\ db_pc' = "done"
  /\ UNCHANGED <<db_op, db_folder, db_configured, store, before, pages,
                 batch_start, all_chunks, all_text_parts, documents_chunks,
                 doc_pos, updated_count, errors, add_calls, delete_calls>>
  /\ UNCHANGED <<db_text, db_filename, doc_metadata, oracle_calls>>
  /\ UNCHANGED <<ct_vars, chat_vars, cite_vars>>

\* title and author are extracted and the text is cut into chunks
StoreSegment ==
  /\ db_op = "store_text" /\ db_pc = "start"
  /\ StoreValid
  /\ doc_metadata' \in Extracted(db_text)
  /\ oracle_calls' = oracle_calls + (IF OracleAsked(db_text) THEN 1 ELSE 0)
  /\ all_chunks' = chunk_text(db_text, DefaultChunkSize, DefaultOverlap)
  /\ db_pc' = "add"
  /\ UNCHANGED <<db_op, db_folder, db_configured, store, before, pages,
                 batch_start, all_text_parts, documents_chunks, doc_pos,
                 updated_count, errors, db_result, add_calls, delete_calls>>
  /\ UNCHANGED <<db_text, db_filename>>
  /\ UNCHANGED <<ct_vars, chat_vars, cite_vars>>

\* the chunks of the document as store_text hands them to collection.add
StoreRecords ==
  [k \in 1..Len(all_chunks) |->
     Stored(FreshId(k), all_chunks[k], k - 1, Len(all_chunks), db_folder,
            doc_metadata.title,
            IF doc_metadata.author # NoneVal THEN doc_metadata.author ELSE <<>>)]

\* collection.add stores the chunks: the result is returned
StoreAdd ==
  /\ db_op = "store_text" /\ db_pc = "add"
  /\ store' = store \o StoreRecords
  /\ add_calls' = add_calls + 1
  /\ db_result' = [message |-> <<"Text stored successfully">>,
                   folder_name |-> db_folder,
                   document_title |-> doc_metadata.title,
                   document_author |-> doc_metadata.author,
                   filename |-> db_filename,
                   total_chunks |-> Len(all_chunks),
                   chunk_ids |-> [k \in 1..Len(all_chunks) |-> FreshId(k)]]
  /\ db_pc' = "done"
  /\ UNCHANGED <<db_op, db_folder, db_configured, before, pages, batch_start,
                 all_chunks, all_text_parts, documents_chunks, doc_pos,
                 updated_count, errors, delete_calls>>
  /\ UNCHANGED <<db_text, db_filename, doc_metadata, oracle_calls>>
  /\ UNCHANGED <<ct_vars, chat_vars, cite_vars>>

\* collection.add raises: store_text has no try block
StoreAddFails ==
  /\ db_op = "store_text" /\ db_pc = "add"
  /\ add_calls' = add_calls + 1
  /\ db_result' = Raised
  /\ db_pc' = "done"
  /\ UNCHANGED <<db_op, db_folder, db_configured, store, before, pages,
                 batch_start, all_chunks, all_text_parts, documents_chunks,
                 doc_pos, updated_count, errors, delete_calls>>
  /\ UNCHANGED <<db_text, db_filename, doc_metadata, oracle_calls>>
  /\ UNCHANGED <<ct_vars, chat_vars, cite_vars>>

(***************************************************************************)
(* Database.ocr_pdf                                                        *)
(***************************************************************************)
\* `if not folder_name or not folder_name.strip()`
OcrReject ==
  /\ db_op = "ocr_pdf" /\ db_pc = "start"
  /\ Strip(db_folder) = <<>>
  /\ db_result' = FolderError
  /\ db_pc' = "done"
  /\ UNCHANGED <<db_op, db_folder, db_configured, store, before, pages,
                 batch_start, all_chunks, all_text_parts, documents_chunks,
                 doc_pos, updated_count, errors, add_calls, delete_calls>>
  /\ UNCHANGED <<db_text, db_filename, doc_metadata, oracle_calls>>
  /\ UNCHANGED <<ct_vars, chat_vars, cite_vars>>

\* convert_from_bytes returns the pages
OcrConvert ==
  /\ db_op = "ocr_pdf" /\ db_pc = "start"
  /\ Strip(db_folder) # <<>>
  /\ batch_start' = 0
  /\ db_pc' = "batch"
  /\ UNCHANGED <<db_op, db_folder, db_configured, store, before, pages,
                 all_chunks, all_text_parts, documents_chunks, doc_pos,
                 updated_count, errors, db_result, add_calls, delete_calls>>
  /\ UNCHANGED <<db_text, db_filename, doc_metadata, oracle_calls>>
  /\ UNCHANGED <<ct_vars, chat_vars, cite_vars>>

\* convert_from_bytes, page.save or the OCR of a batch raises: ocr_pdf has no
\* try block
OcrRaises ==
  /\ db_op = "ocr_pdf"
  /\ \/ db_pc = "start" /\ Strip(db_folder) # <<>>
     \/ db_pc = "batch" /\ batch_start < Len(pages)
  /\ db_result' = Raised
  /\ db_pc' = "done"
  /\ UNCHANGED <<db_op, db_folder, db_configured, store, before, pages,
                 batch_start, all_chunks, all_text_parts, documents_chunks,
                 doc_pos, updated_count, errors, add_calls, delete_calls>>
  /\ UNCHANGED <<db_text, db_filename, doc_metadata, oracle_calls>>
  /\ UNCHANGED <<ct_vars, chat_vars, cite_vars>>

\* the loop with the chunks of each batch added as soon as they are cut
OcrBatchAdded ==
  /\ db_op = "ocr_pdf" /\ db_pc = "batch"
  /\ batch_start < Len(pages)
  /\ LET batch_end == Min(batch_start + BatchSize, Len(pages))
         results == SubSeq(pages, batch_start + 1, batch_end)
         batch_text == JoinPages(results)
         batch_chunks == chunk_text(batch_text, DefaultChunkSize, DefaultOverlap)
     IN  /\ all_text_parts' = Append(all_text_parts, batch_text)
         /\ all_chunks' = all_chunks \o batch_chunks
         /\ store' = store \o
              [k \in 1..Len(batch_chunks) |->
                 Stored(FreshId(Len(all_chunks) + k), batch_chunks[k],
                        Len(all_chunks) + k - 1, Len(batch_chunks), db_folder,
                        CleanFilename(Filename), <<>>)]
  /\ add_calls' = add_calls + 1
  /\ batch_start' = batch_start + BatchSize
  /\ UNCHANGED <<db_op, db_folder, db_configured, db_pc, before, pages,
                 documents_chunks, doc_pos, updated_count, errors, db_result,
                 delete_calls>>
  /\ UNCHANGED <<db_text, db_filename, doc_metadata, oracle_calls>>
  /\ UNCHANGED <<ct_vars, chat_vars, cite_vars>>

\* one iteration of `for batch_start in range(0, page_count, batch_size):`
OcrBatch ==
  /\ db_op = "ocr_pdf" /\ db_pc = "batch"
  /\ batch_start < Len(pages)
  /\ LET batch_end == Min(batch_start + BatchSize, Len(pages))
         results == SubSeq(pages, batch_start + 1, batch_end)
         batch_text == JoinPages(results)
         batch_chunks == chunk_text(batch_text, DefaultChunkSize, DefaultOverlap)
     IN  /\ all_text_parts' = Append(all_text_parts, batch_text)
         /\ all_chunks' = all_chunks \o batch_chunks
  /\ batch_start' = batch_start + BatchSize
  /\ UNCHANGED <<db_op, db_folder, db_configured, db_pc, store, before, pages,
                 documents_chunks, doc_pos, updated_count, errors, db_result,
                 add_calls, delete_calls>>
  /\ UNCHANGED <<db_text, db_filename, doc_metadata, oracle_calls>>
  /\ UNCHANGED <<ct_vars, chat_vars, cite_vars>>

\* the chunks of the document as ocr_pdf hands them to collection.add
OcrRecords(doc) ==
  [k \in 1..Len(all_chunks) |->
     Stored(FreshId(k), all_chunks[k], k - 1, Len(all_chunks), db_folder,
            doc.title, IF doc.author # NoneVal THEN doc.author ELSE <<>>)]

\* after the last batch: title and author are extracted, the chunks are added
OcrAdd ==
  /\ db_op = "ocr_pdf" /\ db_pc = "batch"
  /\ batch_start >= Len(pages)
  /\ \E doc \in Extracted(JoinPages(all_text_parts)) :
       /\ store' = store \o OcrRecords(doc)
       /\ db_result' = [document_title |-> doc.title,
                        document_author |-> doc.author,
                        total_pages |-> Len(pages),
                        total_chunks |-> Len(all_chunks),
                        batches |-> Len(all_text_parts),
                        chunk_ids |-> [k \in 1..Len(all_chunks) |-> FreshId(k)]]
  /\ add_calls' = add_calls + 1
  /\ db_pc' = "done"
  /\ UNCHANGED <<db_op, db_folder, db_configured, before, pages, batch_start,
                 all_chunks, all_text_parts, documents_chunks, doc_pos,
                 updated_count, errors, delete_calls>>
  /\ oracle_calls' = oracle_calls + (IF OracleAsked(JoinPages(all_text_parts)) THEN 1 ELSE 0)
  /\ UNCHANGED <<db_text, db_filename, doc_metadata>>
  /\ UNCHANGED <<ct_vars, chat_vars, cite_vars>>

\* collection.add raises
OcrAddFails ==
  /\ db_op = "ocr_pdf" /\ db_pc = "batch"
  /\ batch_start >= Len(pages)
  /\ add_calls' = add_calls + 1
  /\ db_result' = Raised
  /\ db_pc' = "done"
  /\ UNCHANGED <<db_op, db_folder, db_configured, store, before, pages,
                 batch_start, all_chunks, all_text_parts, documents_chunks,
                 doc_pos, updated_count, errors, delete_calls>>
  /\ oracle_calls' = oracle_calls + (IF OracleAsked(JoinPages(all_text_parts)) THEN 1 ELSE 0)
  /\ UNCHANGED <<db_text, db_filename, doc_metadata>>
  /\ UNCHANGED <<ct_vars, chat_vars, cite_vars>>

(***************************************************************************)
(* Database.update_document_authors                                        *)
(***************************************************************************)
UpdateConfigError ==
  [error |-> <<"Gemini API key or model not configured. Author extraction requires AI.">>]

\* the first of the two checks before the try block that fails
UpdateRejection == IF db_folder = <<>> THEN FolderError ELSE UpdateConfigError

UpdateValid == db_folder # <<>> /\ db_configured

\* the record of the outer except clause
UpdateFailure(e) == [error |-> <<"Error updating document authors: ", e>>]

NoDocumentsError == [error |-> <<"No documents found in this folder">>]

\* collection.get(where={"folder_name": folder}): the stored chunks of folder
InFolder(coll, folder) ==
  LET Here(c) == c.metadata.folder_name = folder
  IN  SelectSeq(coll, Here)

\* the ids among chunks that are stored under the title source
IdsOf(found, source) ==
  LET Titled(c) == c.metadata.source = source
      titled == SelectSeq(found, Titled)
  IN  [k \in 1..Len(titled) |-> titled[k].id]

\* documents_chunks for the chunks found: one entry per title, in the order
\* the titles are first met
GroupBySource(found) ==
  LET titles == Unique([k \in 1..Len(found) |-> found[k].metadata.source], <<>>)
  IN  [k \in 1..Len(titles) |-> [source |-> titles[k], ids |-> IdsOf(found, titles[k])]]

\* the authors extract_title_and_author can find for a stored document
NewAuthors == {<<"y">>}

\* collection.delete(ids=chunk_ids)
Delete(coll, ids) ==
  LET Kept(c) == c.id \notin Range(ids)
  IN  SelectSeq(coll, Kept)

\* collection.get(ids=chunk_ids) with the author of each metadata replaced
Rewritten(coll, ids, new_author) ==
  LET Asked(c) == c.id \in Range(ids)
      current_results == SelectSeq(coll, Asked)
  IN  [k \in 1..Len(current_results) |->
         [current_results[k] EXCEPT !.metadata.author = new_author]]

\* the two checks before the try block
UpdReject ==
  /\ db_op = "update_document_authors" /\ db_pc = "start"
  /\ ~UpdateValid
  /\ db_result' = UpdateRejection
  /\ db_pc' = "done"
  /\ UNCHANGED <<db_op, db_folder, db_configured, store, before, pages,
                 batch_start, all_chunks, all_text_parts, documents_chunks,
                 doc_pos, updated_count, errors, add_calls, delete_calls>>
  /\ UNCHANGED <<db_text, db_filename, doc_metadata, oracle_calls>>
  /\ UNCHANGED <<ct_vars, chat_vars, cite_vars>>

\* collection.get(where=...) raises: the outer except clause
UpdGetFails ==
  /\ db_op = "update_document_authors" /\ db_pc = "start"
  /\ UpdateValid
  /\ db_result' = UpdateFailure("store")
  /\ db_pc' = "done"
  /\ UNCHANGED <<db_op, db_folder, db_configured, store, before, pages,
                 batch_start, all_chunks, all_text_parts, documents_chunks,
                 doc_pos, updated_count, errors, add_calls, delete_calls>>
  /\ UNCHANGED <<db_text, db_filename, doc_metadata, oracle_calls>>
  /\ UNCHANGED <<ct_vars, chat_vars, cite_vars>>

\* the folder holds no chunk
UpdEmpty ==
  /\ db_op = "update_document_authors" /\ db_pc = "start"
  /\ UpdateValid
  /\ InFolder(store, db_folder) = <<>>
  /\ db_result' = NoDocumentsError
  /\ db_pc' = "done"
  /\ UNCHANGED <<db_op, db_folder, db_configured, store, before, pages,
                 batch_start, all_chunks, all_text_parts, documents_chunks,
                 doc_pos, updated_count, errors, add_calls, delete_calls>>
  /\ UNCHANGED <<db_text, db_filename, doc_metadata, oracle_calls>>
  /\ UNCHANGED <<ct_vars, chat_vars, cite_vars>>

\* the chunks of the folder are grouped by title
UpdGroup ==
  /\ db_op = "update_document_authors" /\ db_pc = "start"
  /\ UpdateValid
  /\ InFolder(store, db_folder) # <<>>
  /\ documents_chunks' = GroupBySource(InFolder(store, db_folder))
  /\ doc_pos' = 1
  /\ updated_count' = 0
  /\ errors' = <<>>
  /\ db_pc' = "loop"
  /\ UNCHANGED <<db_op, db_folder, db_configured, store, before, pages,
                 batch_start, all_chunks, all_text_parts, db_result, add_calls,
                 delete_calls>>
  /\ UNCHANGED <<db_text, db_filename, doc_metadata, oracle_calls>>
  /\ UNCHANGED <<ct_vars, chat_vars, cite_vars>>

\* the loop is at a document
AtDocument ==
  /\ db_op = "update_document_authors" /\ db_pc = "loop"
  /\ doc_pos <= Len(documents_chunks)

\* `errors.append(f"Error updating {source_title}: {str(e)}")`
UpdateError(source_title, e) == <<"Error updating ", source_title, e>>

\* no author is extracted for the document: `if new_author:` is false
UpdSkip ==
  /\ AtDocument
  /\ doc_pos' = doc_pos + 1
  /\ UNCHANGED <<db_op, db_folder, db_configured, db_pc, store, before, pages,
                 batch_start, all_chunks, all_text_parts, documents_chunks,
                 updated_count, errors, db_result, add_calls, delete_calls>>
  /\ oracle_calls' = oracle_calls + 1
  /\ UNCHANGED <<db_text, db_filename, doc_metadata>>
  /\ UNCHANGED <<ct_vars, chat_vars, cite_vars>>

\* an author is extracted; the chunks are read, deleted and added again
UpdRewrite ==
  /\ AtDocument
  /\ \E new_author \in NewAuthors :
       LET chunk_ids == documents_chunks[doc_pos].ids
       IN  store' = Delete(store, chunk_ids) \o Rewritten(store, chunk_ids, new_author)
  /\ delete_calls' = delete_calls + 1
  /\ add_calls' = add_calls + 1
  /\ updated_count' = updated_count + 1
  /\ doc_pos' = doc_pos + 1
  /\ UNCHANGED <<db_op, db_folder, db_configured, db_pc, before, pages,
                 batch_start, all_chunks, all_text_parts, documents_chunks,
                 errors, db_result>>
  /\ oracle_calls' = oracle_calls + 1
  /\ UNCHANGED <<db_text, db_filename, doc_metadata>>
  /\ UNCHANGED <<ct_vars, chat_vars, cite_vars>>

\* an author is extracted; collection.get(ids=...) raises
UpdReadFails ==
  /\ AtDocument
  /\ errors' = Append(errors, UpdateError(documents_chunks[doc_pos].source, "get"))
  /\ doc_pos' = doc_pos + 1
  /\ UNCHANGED <<db_op, db_folder, db_configured, db_pc, store, before, pages,
                 batch_start, all_chunks, all_text_parts, documents_chunks,
                 updated_count, db_result, add_calls, delete_calls>>
  /\ oracle_calls' = oracle_calls + 1
  /\ UNCHANGED <<db_text, db_filename, doc_metadata>>
  /\ UNCHANGED <<ct_vars, chat_vars, cite_vars>>

\* an author is extracted; collection.delete raises
UpdDeleteFails ==
  /\ AtDocument
  /\ delete_calls' = delete_calls + 1
  /\ errors' = Append(errors, UpdateError(documents_chunks[doc_pos].source, "delete"))
  /\ doc_pos' = doc_pos + 1
  /\ UNCHANGED <<db_op, db_folder, db_configured, db_pc, store, before, pages,
                 batch_start, all_chunks, all_text_parts, documents_chunks,
                 updated_count, db_result, add_calls>>
  /\ oracle_calls' = oracle_calls + 1
  /\ UNCHANGED <<db_text, db_filename, doc_metadata>>
  /\ UNCHANGED <<ct_vars, chat_vars, cite_vars>>

\* collection.add raises and the document is counted as updated all the same
UpdAddFailsCounted ==
  /\ AtDocument
  /\ store' = Delete(store, documents_chunks[doc_pos].ids)
  /\ delete_calls' = delete_calls + 1
  /\ add_calls' = add_calls + 1
  /\ updated_count' = updated_count + 1
  /\ errors' = Append(errors, UpdateError(documents_chunks[doc_pos].source, "add"))
  /\ doc_pos' = doc_pos + 1
  /\ UNCHANGED <<db_op, db_folder, db_configured, db_pc, before, pages,
                 batch_start, all_chunks, all_text_parts, documents_chunks,
                 db_result>>
  /\ oracle_calls' = oracle_calls + 1
  /\ UNCHANGED <<db_text, db_filename, doc_metadata>>
  /\ UNCHANGED <<ct_vars, chat_vars, cite_vars>>

\* an author is extracted; the chunks are deleted and collection.add raises
UpdAddFails ==
  /\ AtDocument
  /\ store' = Delete(store, documents_chunks[doc_pos].ids)
  /\ delete_calls' = delete_calls + 1
  /\ add_calls' = add_calls + 1
  /\ errors' = Append(errors, UpdateError(documents_chunks[doc_pos].source, "add"))
  /\ doc_pos' = doc_pos + 1
  /\ UNCHANGED <<db_op, db_folder, db_configured, db_pc, before, pages,
                 batch_start, all_chunks, all_text_parts, documents_chunks,
                 updated_count, db_result>>
  /\ oracle_calls' = oracle_calls + 1
  /\ UNCHANGED <<db_text, db_filename, doc_metadata>>
  /\ UNCHANGED <<ct_vars, chat_vars, cite_vars>>

\* after the loop: the counts are returned
UpdReturn ==
  /\ db_op = "update_document_authors" /\ db_pc = "loop"
  /\ doc_pos > Len(documents_chunks)
  /\ db_result' = [message |-> <<"Updated ", updated_count, " document(s)">>,
                   updated_count |-> updated_count,
                   errors |-> IF errors # <<>> THEN errors ELSE NoneVal]
  /\ db_pc' = "done"
  /\ UNCHANGED <<db_op, db_folder, db_configured, store, before, pages,
                 batch_start, all_chunks, all_text_parts, documents_chunks,
                 doc_pos, updated_count, errors, add_calls, delete_calls>>
  /\ UNCHANGED <<db_text, db_filename, doc_metadata, oracle_calls>>
  /\ UNCHANGED <<ct_vars, chat_vars, cite_vars>>

DbNext ==
  \/ StoreReject
  \/ StoreSegment
  \/ StoreAdd
  \/ StoreAddFails
  \/ OcrReject
  \/ OcrConvert
  \/ OcrRaises
  \/ OcrBatch
  \/ OcrAdd
  \/ OcrAddFails
  \/ UpdReject
  \/ UpdGetFails
  \/ UpdEmpty
  \/ UpdGroup
  \/ UpdSkip
  \/ UpdRewrite
  \/ UpdReadFails
  \/ UpdDeleteFails
  \/ UpdAddFails
  \/ UpdReturn

SpecDb == DbInit /\ [][DbNext]_vars

(***************************************************************************)
(* One call of any operation of the core.                                  *)
(***************************************************************************)
AnyInit == CallInit \/ DbInit

AnyNext == Next \/ DbNext

SpecAny == AnyInit /\ [][AnyNext]_vars

(***************************************************************************)
(* Properties of chunk_text.                                               *)
(***************************************************************************)
\* chunk_text returned from the sentence path
SentencePathDone == ct_pc = "done" /\ sentences # <<>>

\* the sentences a returned chunk is made of
ChunkSentences(k) == SplitSentences(chunks[k])

\* the last n elements of a sequence
LastN(ss, n) == SubSeq(ss, Len(ss) - n + 1, Len(ss))

\* a sequence without its first n elements
DropN(ss, n) == SubSeq(ss, n + 1, Len(ss))

\* C5: every returned chunk is at most chunk_size long, unless it is one
\* single sentence that is itself longer than chunk_size.
C5_ChunkWithinSize ==
  ct_pc = "done" =>
    \A k \in 1..Len(chunks) :
      \/ Len(chunks[k]) <= chunk_size
      \/ Len(ChunkSentences(k)) = 1

\* what is left of each chunk once the sentences repeated from the previous
\* chunk are removed
NewSentences ==
  [k \in 1..Len(chunks) |-> DropN(ChunkSentences(k), Len(overlap_sentences[k]))]

\* C6: on the sentence path, the chunks without their repeated leading
\* sentences, concatenated, are exactly the sentences of the input in order;
\* the removed sentences are the trailing sentences of the previous chunk.
C6_SentencesCovered ==
  SentencePathDone =>
    /\ Len(overlap_sentences) = Len(chunks)
    /\ Flatten(NewSentences) = SplitSentences(text)
    /\ overlap_sentences[1] = <<>>
    /\ \A k \in 2..Len(chunks) :
         LET n == Len(overlap_sentences[k])
         IN  /\ n <= Len(ChunkSentences(k - 1))
             /\ n < Len(ChunkSentences(k))
             /\ SubSeq(ChunkSentences(k), 1, n) = overlap_sentences[k]
             /\ LastN(ChunkSentences(k - 1), n) = overlap_sentences[k]

\* C6 witness: three sentences or more came back as several chunks, one of
\* them starting with sentences repeated from the chunk before it
C6_Witness ==
  /\ SentencePathDone
  /\ Len(sentences) >= 3
  /\ Len(chunks) >= 2
  /\ \E k \in 2..Len(chunks) : overlap_sentences[k] # <<>>

\* the number of trailing sentences of ss that, joined, fit in ov characters
LongestFit(ss, ov) ==
  CHOOSE n \in 0..Len(ss) :
    /\ (n > 0 => Len(Join(LastN(ss, n))) <= ov)
    /\ \A m \in (n + 1)..Len(ss) : Len(Join(LastN(ss, m))) > ov

\* the second of two consecutive chunks starts with the longest run of
\* trailing sentences of the first that fits in overlap characters
OverlapIsLongestFit ==
  SentencePathDone =>
    \A k \in 2..Len(chunks) :
      LET prev == ChunkSentences(k - 1)
          n == LongestFit(prev, overlap)
      IN  /\ overlap_sentences[k] = LastN(prev, n)
          /\ SubSeq(ChunkSentences(k), 1, n) = LastN(prev, n)

\* C7: the second of two consecutive chunks starts with the longest run of
\* trailing sentences of the first that fits in overlap characters, and that
\* run is never the whole first chunk.
C7_OverlapNeverWholeChunk ==
  /\ OverlapIsLongestFit
  /\ SentencePathDone =>
       \A k \in 2..Len(chunks) : overlap_sentences[k] # ChunkSentences(k - 1)

\* no whitespace follows a '.', '!' or '?' in s
NoSentenceBoundary(s) ==
  \A i \in 2..Len(s) : ~(IsSpace(s[i]) /\ IsTerminal(s[i - 1]))

RECURSIVE FixedWindows(_, _, _, _)
\* windows of size characters of s, the first at from, advancing by step,
\* until the window start reaches the end of s
FixedWindows(s, from, size, step) ==
  IF from >= Len(s) THEN <<>>
  ELSE <<PySlice(s, from, from + size)>> \o FixedWindows(s, from + step, size, step)

\* C8: a non-empty text without sentence boundary comes back as fixed-width
\* windows of chunk_size characters advancing by chunk_size - overlap, so as
\* more than one chunk when it is longer than chunk_size.
C8_NoBoundaryFixedWidth ==
  (ct_pc = "done" /\ text # <<>> /\ NoSentenceBoundary(text)
     /\ overlap < chunk_size) =>
    /\ chunks = FixedWindows(text, 0, chunk_size, chunk_size - overlap)
    /\ (Len(text) > chunk_size => Len(chunks) > 1)

(***************************************************************************)
(* Properties of process_chat_query_stream, process_chat_query and         *)
(* generate_outline.                                                       *)
(***************************************************************************)
\* the `type` of a yielded record, "untyped" for a record without one
TypeOf(record) == IF "type" \in DOMAIN record THEN record.type ELSE "untyped"

\* the types of the lines yielded so far, in order
Kinds == [i \in 1..Len(out) |-> TypeOf(out[i].record)]

\* metadata, then chunks, then one complete or error
FullStreamShape ==
  /\ Len(out) >= 2
  /\ Kinds[1] = "metadata"
  /\ \A i \in 2..(Len(out) - 1) : Kinds[i] = "chunk"
  /\ Kinds[Len(out)] \in {"complete", "error"}

\* the lines before the last are one metadata and then chunks
OpenStreamShape ==
  \A i \in 1..(Len(out) - 1) :
    IF i = 1 THEN Kinds[i] = "metadata" ELSE Kinds[i] = "chunk"

C2_EveryLineTyped ==
  \A i \in 1..Len(out) :
    /\ out[i].end = "\n"
    /\ "type" \in DOMAIN out[i].record
    /\ out[i].record.type \in {"metadata", "chunk", "complete", "error"}

\* C3: when the generation oracle raises, on opening the stream or on any
\* pull, the last line is an error record and no complete record is yielded;
\* a complete record is yielded only once the stream was exhausted.
C3_FailureEndsInError ==
  op = "stream" =>
    /\ gen_state = "failed" =>
         /\ pc = "done"
         /\ Len(out) >= 1
         /\ Kinds[Len(out)] = "error"
         /\ \A i \in 1..Len(out) : Kinds[i] # "complete"
    /\ (\E i \in 1..Len(out) : Kinds[i] = "complete") =>
         gen_state = "exhausted" /\ pc = "done"

\* C3 witness: the stream raised after an increment was yielded as a chunk
C3_Witness ==
  /\ op = "stream"
  /\ gen_state = "failed"
  /\ \E i \in 1..Len(out) : Kinds[i] = "chunk"

\* the oracle handed over an object that carries no text at all
HasNoText(object) ==
  object.text = <<>> /\ \A k \in 1..Len(object.parts) : object.parts[k] = <<>>

\* C4: when the generation call went through without raising and produced no
\* text, the stream ends with an error record and no complete, and
\* process_chat_query and generate_outline return an error.
C4_NoContentIsFailure ==
  (gen_state = "exhausted" /\ pc = "done"
     /\ \A k \in 1..Len(generated) : HasNoText(generated[k])) =>
    IF op = "stream"
    THEN /\ Kinds[Len(out)] = "error"
         /\ \A i \in 1..Len(out) : Kinds[i] # "complete"
    ELSE "error" \in DOMAIN result

\* the store answered the query of this call
QueryAnswered == "documents" \in DOMAIN query_results

\* every evidence item held in a Document Group
GroupedItems ==
  IF op = "outline"
  THEN UNION {Range(documents_data[t]) : t \in DOMAIN documents_data}
  ELSE UNION {Range(documents_data[t].chunks) : t \in DOMAIN documents_data}

\* every evidence item handed back in a source_chunks payload
ReturnedItems ==
  UNION
    ({UNION {Range(out[i].record.source_chunks[t].chunks) :
               t \in DOMAIN out[i].record.source_chunks} :
        i \in {j \in 1..Len(out) : Kinds[j] = "complete"}}
     \cup
     (IF "source_chunks" \in DOMAIN result
      THEN {UNION {Range(result.source_chunks[t].chunks) :
                     t \in DOMAIN result.source_chunks}}
      ELSE {}))

\* C9: an evidence item comes from a candidate whose reported distance is
\* strictly below 0.85: a candidate at 0.85 or more, or without a reported
\* distance, is in no group; of distances 0.81, 0.86, 0.90 only the first
\* candidate is kept.
C9_OnlyBelowThreshold ==
  QueryAnswered =>
    /\ \A item \in GroupedItems \cup ReturnedItems :
         /\ item.text \in 1..Len(query_results.distances)
         /\ query_results.distances[item.text] = item.distance
         /\ item.distance < 85
    /\ query_results.distances = <<81, 86, 90>> =>
         {item.text : item \in GroupedItems} = {1}

\* C9 witness: the store returned a candidate at exactly 0.85 next to one that
\* was kept, and the call has finished
C9_Witness ==
  /\ QueryAnswered
  /\ pc = "done"
  /\ GroupedItems # {}
  /\ \E i \in 1..Len(query_results.distances) : query_results.distances[i] = 85

\* the evidence blocks of the prompt, none before the prompt is built
PromptBlocks == IF "context" \in DOMAIN prompt THEN Range(prompt.context) ELSE {}

\* the per-document lists of every source_chunks payload handed back
ReturnedGroups ==
  UNION
    ({{out[i].record.source_chunks[t].chunks :
         t \in DOMAIN out[i].record.source_chunks} :
        i \in {j \in 1..Len(out) : Kinds[j] = "complete"}}
     \cup
     (IF "source_chunks" \in DOMAIN result
      THEN {{result.source_chunks[t].chunks : t \in DOMAIN result.source_chunks}}
      ELSE {}))

\* C10: no document contributes more than its cap: at most 8 texts per
\* document in the outline prompt, at most 5 per document in the chat prompt
\* and in every source_chunks payload.
C10_GroupsWithinCap ==
  /\ \A block \in PromptBlocks :
       Len(block.texts) <= (IF op = "outline" THEN 8 ELSE 5)
  /\ \A group \in ReturnedGroups : Len(group) <= 5

\* C10 witness: a chat stream completed for a document that matched more than
\* five candidates
C10_Witness ==
  /\ op = "stream" /\ pc = "done"
  /\ Kinds[Len(out)] = "complete"
  /\ \E t \in DOMAIN documents_data : Len(documents_data[t].chunks) > 5

(***************************************************************************)
(* Document Group identities.                                              *)
(***************************************************************************)
\* the identity a candidate has by its metadata: its title, and for a chunk
\* without title metadata the title derived from its filename
TitleKey(metadata) ==
  IF "source" \in DOMAIN metadata THEN metadata.source
  ELSE IF "filename" \in DOMAIN metadata THEN CleanFilename(metadata.filename)
  ELSE UnknownDocument

\* the evidence items of the Document Group t
ItemsOf(t) ==
  IF op = "outline" THEN Range(documents_data[t]) ELSE Range(documents_data[t].chunks)

\* C11: in the chat aggregation and in the outline aggregation every surviving
\* candidate is grouped under the document title of its metadata, and under
\* the title derived from its filename when it has no title metadata.
C11_GroupedByTitle ==
  QueryAnswered =>
    \A t \in DOMAIN documents_data :
      \A item \in ItemsOf(t) : t = TitleKey(item.metadata)

(***************************************************************************)
(* Evidence layout.                                                        *)
(***************************************************************************)
\* the prompt of this call is built
Prompted == "context" \in DOMAIN prompt

\* the store answer r with the candidates at positions i and j exchanged
Swapped(r, i, j) ==
  LET at(k) == IF k = i THEN j ELSE IF k = j THEN i ELSE k
  IN  [documents |-> [k \in 1..Len(r.documents) |-> r.documents[at(k)]],
       metadatas |-> [k \in 1..Len(r.metadatas) |-> r.metadatas[at(k)]],
       distances |-> [k \in 1..Len(r.distances) |-> r.distances[at(k)]]]

\* the store reported a metadata and a distance for every candidate
FullyReported(r) ==
  Len(r.metadatas) = Len(r.documents) /\ Len(r.distances) = Len(r.documents)

\* the evidence framing operation o builds from the store answer r
Framing(o, r) ==
  IF o = "outline"
  THEN [source_documents |-> SortedKeys(DOMAIN OutlineDocumentsData(r)),
        context |-> OutlineContext(OutlineDocumentsData(r))]
  ELSE [source_documents |-> SortedKeys(DOMAIN ChatDocumentsData(r)),
        context |-> ChatContext(ChatDocumentsData(r))]

\* groups are laid out in ascending order of identity and, inside a group,
\* the texts are those of its closest candidates, closest first (holds)
LayoutSorted ==
  Prompted =>
    /\ \A k \in 1..(Len(prompt.source_documents) - 1) :
         StrLess(prompt.source_documents[k], prompt.source_documents[k + 1])
    /\ \A k \in 1..Len(prompt.context) :
         LET block == prompt.context[k]
             kept == Range(block.texts)
         IN  /\ block.source = prompt.source_documents[k]
             /\ \A n \in 1..(Len(block.texts) - 1) :
                  DistanceAt(query_results, block.texts[n])
                    <= DistanceAt(query_results, block.texts[n + 1])
             /\ \A item \in ItemsOf(block.source) :
                  item.text \notin kept =>
                    \A n \in kept : DistanceAt(query_results, n) <= item.distance

\* C12: the evidence layout is ordered by identity and, inside a group, by
\* ascending distance, so that the same candidates handed over by the store
\* in another order give the same evidence framing.
C12_FramingIgnoresOracleOrder ==
  /\ LayoutSorted
  /\ (Prompted /\ FullyReported(query_results)) =>
       \A i, j \in 1..Len(query_results.documents) :
         Framing(op, Swapped(query_results, i, j)) =
           [source_documents |-> prompt.source_documents, context |-> prompt.context]

(***************************************************************************)
(* Outcomes without evidence.                                              *)
(***************************************************************************)
\* the store answered and none of its candidates is below the threshold
NoSurvivor ==
  /\ QueryAnswered
  /\ \A i \in 1..Len(query_results.documents) : DistanceAt(query_results, i) >= 85

\* what a failed generation call can be reported with
GenerationErrors ==
  {"generation", "No text content in response", "list index out of range"}

\* the records the three operations hand back for a failed generation call
GenerationFailures ==
  {ErrorRecord(e) : e \in GenerationErrors}
    \cup {ChatFailure(e) : e \in GenerationErrors}
    \cup {OutlineFailure(e) : e \in GenerationErrors}

\* what the finished call handed back: the records of the yielded lines, or
\* the returned dictionary
Outcome ==
  IF op = "stream" THEN [i \in 1..Len(out) |-> out[i].record] ELSE <<result>>

\* C13: when no candidate is below the threshold the generation oracle is
\* never invoked and what the call hands back is no record of a failed
\* generation call.
C13_NoEvidenceIsNoGenerationError ==
  NoSurvivor =>
    /\ generate_calls = 0
    /\ gen_state = "idle"
    /\ pc = "done"
    /\ Len(Outcome) = 1
    /\ Outcome[1] \notin GenerationFailures

\* C13 witness: a finished call whose store answer held candidates, all at
\* 0.85 or farther
C13_Witness ==
  /\ NoSurvivor
  /\ pc = "done"
  /\ Len(query_results.documents) > 0

\* the store answer for a folder nothing was ingested into: no candidate
ZeroIngested == ResultOf(<<>>, 0, 0)

\* what operation o hands back for a store answer r none of whose candidates
\* survives the distance test
NoEvidenceOutcome(o, r) ==
  IF o = "outline" THEN <<OutlineNoEvidenceRecord>> ELSE <<NoEvidenceRecord>>

\* C14: the outcome of a query whose folder holds chunks, none of them within
\* the threshold, differs from the outcome of the same query against a folder
\* with no ingested document.
C14_NoEvidenceDiffersFromEmptyFolder ==
  (NoSurvivor /\ pc = "done" /\ Len(query_results.documents) > 0) =>
    /\ Outcome = NoEvidenceOutcome(op, query_results)
    /\ Outcome # NoEvidenceOutcome(op, ZeroIngested)

(***************************************************************************)
(* Citations.                                                              *)
(***************************************************************************)
\* the stream call has yielded its complete record
Completed == op = "stream" /\ Len(out) >= 1 /\ Kinds[Len(out)] = "complete"

\* process_chat_query has returned an answer
Answered == op = "chat" /\ "all_available_sources" \in DOMAIN result

\* the citations of the generated text in the order they are met, repeats
\* included
CitedInOrder ==
  CiteAll(FindCitations(full_response, 1), SortedKeys(DOMAIN documents_data), <<>>)

\* the index of the first x in seq
FirstIndex(seq, x) ==
  CHOOSE i \in 1..Len(seq) : seq[i] = x /\ \A j \in 1..(i - 1) : seq[j] # x

\* list holds every element of cited once, in the order of first occurrence
FirstOccurrences(list, cited) ==
  /\ Range(list) = Range(cited)
  /\ \A i, j \in 1..Len(list) :
       i < j => /\ list[i] # list[j]
                /\ FirstIndex(cited, list[i]) < FirstIndex(cited, list[j])

\* C15: the `sources` of the complete record of process_chat_query_stream and
\* the `sources` returned by process_chat_query hold every citation once, in
\* the order of first occurrence in the generated text.
C15_SourcesInFirstOccurrenceOrder ==
  /\ Completed => FirstOccurrences(out[Len(out)].record.sources, CitedInOrder)
  /\ Answered => FirstOccurrences(result.sources, CitedInOrder)

\* the half of C15 that is about process_chat_query_stream (holds)
StreamSourcesInFirstOccurrenceOrder ==
  Completed => FirstOccurrences(out[Len(out)].record.sources, CitedInOrder)

RECURSIVE Fragments(_)
\* the non-empty trimmed fragments of the bracketed spans, in text order
Fragments(citations) ==
  IF citations = <<>> THEN <<>>
  ELSE LET pieces == SplitSources(Head(citations), <<>>)
           trimmed == [k \in 1..Len(pieces) |-> Strip(pieces[k])]
           kept == {k \in 1..Len(pieces) : trimmed[k] # <<>>}
           nth(n) == CHOOSE k \in kept : Cardinality({m \in kept : m < k}) = n - 1
       IN  [n \in 1..Cardinality(kept) |-> trimmed[nth(n)]] \o Fragments(Tail(citations))

\* every fragment of the generated text resolved by itself: the first known
\* identity it contains or is contained in, else the fragment
ResolvedFragments ==
  LET fragments == Fragments(FindCitations(full_response, 1))
  IN  [k \in 1..Len(fragments) |->
         ResolveSource(fragments[k], SortedKeys(DOMAIN documents_data))]

\* C16: each non-empty trimmed fragment of each bracketed span, split on ';'
\* or ',', is resolved to the first known identity that contains it or is
\* contained in it, whatever the case, and is kept as it is when no identity
\* matches; the reported citations are these, once each.
C16_EveryFragmentResolved ==
  Completed => FirstOccurrences(out[Len(out)].record.sources, ResolvedFragments)

(***************************************************************************)
(* The stream and its complete record.                                     *)
(***************************************************************************)
RECURSIVE ChunkContents(_)
\* the `content` of the chunk records among lines, in emission order
ChunkContents(lines) ==
  IF lines = <<>> THEN <<>>
  ELSE IF TypeOf(Head(lines).record) = "chunk"
       THEN <<Head(lines).record.content>> \o ChunkContents(Tail(lines))
       ELSE ChunkContents(Tail(lines))

RECURSIVE NonEmptyIncrements(_)
\* the texts of the increments the oracle handed over, those without text
\* left out, in generation order
NonEmptyIncrements(objects) ==
  IF objects = <<>> THEN <<>>
  ELSE IF ChunkText(Head(objects)) # <<>>
       THEN <<ChunkText(Head(objects))>> \o NonEmptyIncrements(Tail(objects))
       ELSE NonEmptyIncrements(Tail(objects))

\* C17: every non-empty increment of the generation oracle is emitted as one
\* chunk record, in generation order, and the `sources` of the complete record
\* are the citation reconciliation of the concatenation of the emitted
\* contents.
C17_CompleteOverEmittedText ==
  op = "stream" =>
    /\ ChunkContents(out) = NonEmptyIncrements(generated)
    /\ Completed =>
         out[Len(out)].record.sources =
           CitedSources(Flatten(ChunkContents(out)), SortedKeys(DOMAIN documents_data))

\* C17 witness: a completed stream that emitted two different chunks and
\* reported a citation
C17_Witness ==
  /\ Completed
  /\ Len(ChunkContents(out)) >= 2
  /\ ChunkContents(out)[1] # ChunkContents(out)[2]
  /\ out[Len(out)].record.sources # <<>>

\* the identities of the Document Groups aggregation produces for the store
\* answer of this call: the keys of the candidates below the threshold
AggregatedIdentities ==
  {ChatKey(MetadataAt(query_results, i)) :
     i \in {k \in 1..Len(query_results.documents) :
              DistanceAt(query_results, k) < 85}}

\* C18: in a chat call that reaches complete, the `sources` of the metadata
\* record and the keys of `source_chunks` in the complete record are both
\* exactly the identities of all Document Groups, whatever the text cites.
C18_AllGroupsReported ==
  Completed =>
    /\ TypeOf(out[1].record) = "metadata"
    /\ Range(out[1].record.sources) = AggregatedIdentities
    /\ Len(out[1].record.sources) = Cardinality(AggregatedIdentities)
    /\ DOMAIN out[Len(out)].record.source_chunks = AggregatedIdentities

\* C18 witness: a completed call with two Document Groups whose text cites
\* none of them
C18_Witness ==
  /\ Completed
  /\ Cardinality(AggregatedIdentities) >= 2
  /\ Range(out[Len(out)].record.sources) \cap AggregatedIdentities = {}
  /\ full_response # <<>>

(***************************************************************************)
(* Properties of the Database methods.                                     *)
(***************************************************************************)
\* ocr_pdf has added the chunks of the document
OcrStored == db_op = "ocr_pdf" /\ db_pc = "done" /\ "chunk_ids" \in DOMAIN db_result

\* the documents of the chunks the method added to the collection
AddedDocuments ==
  [k \in 1..(Len(store) - Len(before)) |-> store[Len(before) + k].document]

\* C19: the chunks ocr_pdf stores are chunk_text of the text of all pages
\* joined in page order, whatever the number of batches: a document of more
\* than 30 pages gets the chunks it would get as a single batch.
C19_ChunksIgnoreBatches ==
  OcrStored =>
    AddedDocuments = chunk_text(JoinPages(pages), DefaultChunkSize, DefaultOverlap)

\* the same for the documents that fit in one batch (holds)
SingleBatchChunks ==
  (OcrStored /\ Len(pages) <= BatchSize) =>
    AddedDocuments = chunk_text(JoinPages(pages), DefaultChunkSize, DefaultOverlap)

\* update_document_authors has returned
UpdateReturned == db_op = "update_document_authors" /\ db_pc = "done"

\* the metadata m but for its author
WithoutAuthor(m) == [m EXCEPT !.author = <<>>]

\* chunk c is stored with its id, its text and its metadata but for the author
StillStored(c) ==
  \E k \in 1..Len(store) :
    /\ store[k].id = c.id
    /\ store[k].document = c.document
    /\ WithoutAuthor(store[k].metadata) = WithoutAuthor(c.metadata)

\* C20: when update_document_authors has returned, whether or not a store
\* call failed, every chunk the folder held before the call is still stored
\* with the same id, text and non-author metadata.
C20_NoChunkLost ==
  UpdateReturned =>
    \A k \in 1..Len(before) :
      before[k].metadata.folder_name = db_folder => StillStored(before[k])

\* the same for the calls in which no collection.add raised (holds)
NoChunkLostUnlessAddFails ==
  (UpdateReturned /\ add_calls = updated_count) =>
    \A k \in 1..Len(before) : StillStored(before[k])

\* the titles of the folder whose chunks carry a re-extracted author: the
\* documents whose delete and re-add both completed
RewrittenTitles ==
  {store[k].metadata.source :
     k \in {j \in 1..Len(store) :
              /\ store[j].metadata.folder_name = db_folder
              /\ store[j].metadata.author \in NewAuthors}}

\* the titles the entries of `errors` name
FailedTitles == {errors[k][2] : k \in 1..Len(errors)}

\* the titles of the folder of which a chunk is gone from the collection
LostTitles ==
  {before[k].metadata.source :
     k \in {j \in 1..Len(before) :
              /\ before[j].metadata.folder_name = db_folder
              /\ \A i \in 1..Len(store) : store[i].id # before[j].id}}

InRequest == op = "outline" /\ questions # NoneVal

\* the request passed the two checks and the endpoint has returned
EndpointReturned == InRequest /\ pc = "returned" /\ OutlineValid

\* entry is the report of generate_outline for question: an outline with its
\* sources, or an error with no outline
ReportFor(entry, question) ==
  /\ entry.question = question
  /\ IF "error" \in DOMAIN entry
     THEN entry.outline = NoneVal
     ELSE entry.outline # NoneVal

\* the call of generate_outline for the current question failed: the store
\* query or the generation call raised, or no text could be taken from the
\* response
CallFailed ==
  \/ query_calls = 1 /\ ~QueryAnswered
  \/ gen_state = "failed"
  \/ gen_state = "exhausted" /\ ~HasOutlineText(generated[1])

\* C22: the `outlines` of a generate-outline request hold one entry per
\* question in input order; a question whose store query or generation call
\* fails gets an error entry, and the questions after it are still processed
\* and reported.
C22_OneEntryPerQuestion ==
  /\ EndpointReturned =>
       /\ DOMAIN result = {"outlines"}
       /\ Len(result.outlines) = Len(questions)
       /\ \A k \in 1..Len(questions) : ReportFor(result.outlines[k], questions[k])
  /\ (InRequest /\ pc \in {"next", "start", "prompted", "done"}) =>
       /\ Len(outlines) <= Len(questions)
       /\ \A k \in 1..Len(outlines) : ReportFor(outlines[k], questions[k])
  /\ (InRequest /\ pc = "done") =>
       /\ ReportFor(result, questions[Len(outlines) + 1])
       /\ CallFailed => "error" \in DOMAIN result

\* C22 witness: a request with two questions returned an error entry for the
\* first, whose generation call had raised, and an outline for the second
C22_Witness ==
  /\ EndpointReturned
  /\ Len(questions) = 2
  /\ "error" \in DOMAIN result.outlines[1]
  /\ result.outlines[1].error = <<"Error generating outline: ", "generation">>
  /\ "error" \notin DOMAIN result.outlines[2]

(***************************************************************************)
(* External calls.                                                         *)
(***************************************************************************)
\* the call of process_chat_query_stream or process_chat_query lacks a
\* required field or the generation oracle
ChatCallIncomplete ==
  /\ op \in {"stream", "chat"}
  /\ ~configured \/ folder_name = <<>> \/ Strip(message) = <<>>

\* the call of generate_outline, or the generate-outline request, lacks the
\* folder or the generation oracle
OutlineCallIncomplete ==
  /\ op = "outline"
  /\ ~configured \/ folder_name = <<>>

\* the call of store_text lacks the folder or the filename
StoreCallIncomplete ==
  /\ db_op = "store_text"
  /\ db_folder = <<>> \/ db_filename = <<>>

\* the call in progress has returned an error and nothing else
OnlyRejected ==
  CASE op = "stream" -> Len(out) = 1 /\ DOMAIN out[1].record = {"error"}
    [] op \in {"chat", "outline"} -> DOMAIN result = {"error"}
    [] OTHER -> DOMAIN db_result = {"error"}

\* C23: a call that lacks a required field (folder_name or a non-blank message
\* for the chat calls, folder_name for generate_outline, folder_name or
\* filename for store_text) or, for the chat and outline calls, the generation
\* oracle, at no time has called the vector store or the generation oracle,
\* and ends with an error.
C23_RejectedBeforeExternalCalls ==
  /\ (ChatCallIncomplete \/ OutlineCallIncomplete) =>
       /\ query_calls = 0
       /\ generate_calls = 0
       /\ pc \in {"start", "request", "done", "returned"}
       /\ pc \in {"done", "returned"} => OnlyRejected
  /\ StoreCallIncomplete =>
       /\ add_calls = 0
       /\ delete_calls = 0
       /\ oracle_calls = 0
       /\ store = before
       /\ db_pc \in {"start", "done"}
       /\ db_pc = "done" => OnlyRejected

\* C23 witness: store_text, called with a text and a folder on a Database
\* that has its oracle, has returned because the filename is missing
C23_Witness ==
  /\ db_op = "store_text" /\ db_pc = "done"
  /\ db_folder # <<>> /\ db_filename = <<>>
  /\ db_text # <<>> /\ db_configured
  /\ db_result = FilenameError

\* the store query of the call in progress raised
QueryFailed == query_calls >= 1 /\ ~QueryAnswered

\* C24: one call of process_chat_query_stream or process_chat_query, and one
\* call of generate_outline for one question, queries the store at most once
\* and invokes the generation oracle at most once; after a failed store query
\* or a failed or empty generation the call is over without a further call.
C24_NoRetry ==
  op \in {"stream", "chat", "outline"} =>
    /\ query_calls <= 1
    /\ generate_calls <= 1
    /\ generate_calls <= query_calls
    /\ QueryFailed => pc = "done" /\ generate_calls = 0
    /\ gen_state = "failed" => pc = "done"
    /\ (gen_state = "exhausted" /\ full_response = <<>>) => pc = "done"

\* C24 witness: in a request with two questions the generation call for the
\* second question has raised, after the first question had had its own store
\* query and generation call
C24_Witness ==
  /\ op = "outline" /\ questions # NoneVal
  /\ Len(outlines) = 1 /\ "error" \notin DOMAIN outlines[1]
  /\ pc = "done"
  /\ gen_state = "failed"
  /\ query_calls = 1 /\ generate_calls = 1

(***************************************************************************)
(* Ingestion.                                                              *)
(***************************************************************************)
\* store_text or ocr_pdf is called
Ingesting == db_op \in {"store_text", "ocr_pdf"}

\* the ingestion has returned its result
Ingested == Ingesting /\ db_pc = "done" /\ "chunk_ids" \in DOMAIN db_result

\* the whole document has been cut into chunks: the text of store_text, or
\* every batch of pages of ocr_pdf
Segmented ==
  IF db_op = "store_text"
  THEN all_chunks = chunk_text(db_text, DefaultChunkSize, DefaultOverlap)
  ELSE /\ batch_start >= Len(pages)
       /\ Len(all_text_parts) * BatchSize >= Len(pages)
       /\ \A b \in 1..Len(all_text_parts) :
            all_text_parts[b] =
              JoinPages(SubSeq(pages, (b - 1) * BatchSize + 1,
                               Min(b * BatchSize, Len(pages))))

\* what the collection holds beyond what it held when the method was called
Written == SubSeq(store, Len(before) + 1, Len(store))

\* C25: store_text and ocr_pdf call collection.add at most once, after the
\* whole document has been cut into chunks; as long as add has not been called
\* and when a step raises, the collection is as it was; a call that returns
\* its result has called add once, with every chunk of the document under its
\* id, its index and the count of chunks.
C25_OneAddPerDocument ==
  Ingesting =>
    /\ add_calls <= 1
    /\ delete_calls = 0
    /\ add_calls = 0 => store = before
    /\ add_calls = 1 => Segmented /\ db_pc = "done"
    /\ (db_pc = "done" /\ db_result = Raised) => store = before
    /\ Ingested =>
         /\ add_calls = 1
         /\ SubSeq(store, 1, Len(before)) = before
         /\ Len(Written) = Len(all_chunks)
         /\ \A k \in 1..Len(Written) :
              /\ Written[k].id = db_result.chunk_ids[k]
              /\ Written[k].document = all_chunks[k]
              /\ Written[k].metadata.chunk_index = k - 1
              /\ Written[k].metadata.total_chunks = Len(all_chunks)
              /\ Written[k].metadata.folder_name = db_folder
              /\ Written[k].metadata.source = db_result.document_title

\* C25 witness: ocr_pdf has returned for a PDF of more than one batch, with
\* chunks of both batches stored by its one add
C25_Witness ==
  /\ Ingested /\ db_op = "ocr_pdf"
  /\ Len(all_text_parts) = 2
  /\ Len(Written) = 2
  /\ before # <<>>

(***************************************************************************)
(* Logical documents in the collection.                                    *)
(***************************************************************************)
\* the positions in coll of the chunks stored under folder and title
ChunksOf(coll, folder, title) ==
  {k \in 1..Len(coll) :
     coll[k].metadata.folder_name = folder /\ coll[k].metadata.source = title}

\* every chunk of coll has an index below its count, and the chunks of one
\* folder and title carry one count and the indexes 0..count-1, each once
WellFormed(coll) ==
  \A k \in 1..Len(coll) :
    LET m == coll[k].metadata
        same == ChunksOf(coll, m.folder_name, m.source)
    IN  /\ 0 <= m.chunk_index /\ m.chunk_index < m.total_chunks
        /\ \A j \in same : coll[j].metadata.total_chunks = m.total_chunks
        /\ \A i, j \in same :
             coll[i].metadata.chunk_index = coll[j].metadata.chunk_index => i = j
        /\ {coll[j].metadata.chunk_index : j \in same} = 0..(m.total_chunks - 1)

\* C26: whatever store_text, ocr_pdf and update_document_authors calls were
\* made, every stored chunk has 0 <= chunk_index < total_chunks and the chunks
\* sharing one (folder_name, source title) are one logical document: one
\* total_chunks, pairwise distinct chunk_index values covering
\* 0..total_chunks-1.
C26_LogicalDocuments == WellFormed(store)

\* the same for the calls that add no document under a title its folder
\* already holds (holds)
LogicalDocumentsUnlessTitleTaken ==
  (\A k \in 1..Len(Written) :
     ChunksOf(before, Written[k].metadata.folder_name,
              Written[k].metadata.source) = {})
    => WellFormed(store)

(***************************************************************************)
(* The chat and outline operations and the collection.                     *)
(***************************************************************************)
\* C27: process_chat_query_stream, process_chat_query and generate_outline
\* never call collection.add or collection.delete and leave the stored chunks
\* as they were, at every step and also when the consumer closes the stream
\* after a yielded line.
C27_ChatNeverWrites ==
  op \in {"stream", "chat", "outline"} =>
    /\ add_calls = 0
    /\ delete_calls = 0
    /\ store = before

\* C27 witness: the consumer closed the stream after the metadata line and a
\* chunk line, with documents in the collection
C27_Witness ==
  /\ op = "stream" /\ pc = "abandoned"
  /\ Len(out) = 2
  /\ gen_state = "open"
  /\ store # <<>> /\ store = before

(***************************************************************************)
(* The relevance threshold.                                                *)
(***************************************************************************)
\* `if distance < 0.85:` with a band below the threshold in place of the
\* half-line
RelevantInBand(distance, threshold) ==
  distance < threshold /\ threshold - distance <= 5

\* `if distance < 0.85:` with the literal as a parameter
RelevantAt(distance, threshold) == distance < threshold

\* the key the operation in progress groups the candidate i of r under
KeyAt(r, i) ==
  IF op = "outline" THEN OutlineKey(MetadataAt(r, i)) ELSE ChatKey(MetadataAt(r, i))

\* the candidates of store answer r, each with the key and the distance the
\* loop reads for it
CandidatesOf(r) ==
  {[index |-> i, key |-> KeyAt(r, i), distance |-> DistanceAt(r, i)] :
     i \in 1..Len(r.documents)}

\* the candidates among items that the loop appends at threshold
IncludedAt(items, threshold) ==
  {x \in items : RelevantAt(x.distance, threshold)}

\* the cap of the operation in progress
Cap == IF op = "outline" THEN OutlineCap ELSE ChatCap

\* the number of items of document key that are left after the slice
CappedCount(items, key, threshold) ==
  Min(Cap, Cardinality({x \in IncludedAt(items, threshold) : x.key = key}))

\* the keys of the candidates
KeysOf(items) == {x.key : x \in items}

\* the number of items of the documents keys that are left after the slice
RECURSIVE CappedSum(_, _, _)
CappedSum(items, keys, threshold) ==
  IF keys = {} THEN 0
  ELSE LET key == CHOOSE k \in keys : TRUE
       IN  CappedCount(items, key, threshold)
             + CappedSum(items, keys \ {key}, threshold)

\* the number of items of all documents that are left after the slice
CappedTotal(items, threshold) == CappedSum(items, KeysOf(items), threshold)

\* thresholds around the distances of the candidates and the one of the code
ThresholdsFor(items) ==
  {ChatThreshold} \cup {x.distance : x \in items}
    \cup {x.distance + 1 : x \in items}

\* the number of chunks of document key that documents_data holds after the
\* slice
KeptFor(key) ==
  IF key \notin DOMAIN documents_data THEN 0
  ELSE IF op = "outline" THEN Len(OutlineTopChunks(documents_data[key]))
  ELSE Len(ChatTopChunks(documents_data[key].chunks))

\* the store has answered and the aggregation has run; the generation oracle
\* has not been called
Aggregated == QueryAnswered /\ generated = <<>> /\ gen_state = "idle"

\* C28: for the candidates the store returned, the aggregation at a threshold
\* t2 includes every candidate it includes at a threshold t1 <= t2, and the
\* count of items after the cap, of each document and in total, is at t2 at
\* least the one at t1; at the threshold of the code these counts are the ones
\* of documents_data.
C28_MonotoneInThreshold ==
  Aggregated =>
    LET items == CandidatesOf(query_results)
        keys == KeysOf(items)
    IN  /\ \A t1, t2 \in ThresholdsFor(items) :
             t1 <= t2 =>
               /\ IncludedAt(items, t1) \subseteq IncludedAt(items, t2)
               /\ \A key \in keys :
                    CappedCount(items, key, t1) <= CappedCount(items, key, t2)
               /\ CappedSum(items, keys, t1) <= CappedSum(items, keys, t2)
        /\ \A key \in keys : KeptFor(key) = CappedCount(items, key, ChatThreshold)

\* C28 witness: the store returned candidates of which the threshold of the
\* code includes some, and a threshold above the distance of an excluded
\* candidate includes more
C28_Witness ==
  /\ Aggregated
  /\ LET items == CandidatesOf(query_results)
     IN  /\ \E x \in items :
              /\ x.distance >= ChatThreshold
              /\ CappedTotal(items, ChatThreshold) < CappedTotal(items, x.distance + 1)
         /\ CappedTotal(items, ChatThreshold) >= 1

TerminatesWhenOverlapSmaller == (overlap < chunk_size) => <>(ct_pc = "done")

\* the same for the texts that hold a sentence (holds)
TerminatesOnSentences == (Strip(text) # <<>>) => <>(ct_pc = "done")

\* in the fixed-width loop every pass has moved start forward (holds for
\* overlap < chunk_size only)
WindowAdvances ==
  (ct_pc = "while" /\ overlap < chunk_size) => start >= Len(chunks)

====
